---- MODULE Spec2Model ----
(***************************************************************************)
(* Guardian: a pattern-based secret-detection hook.                        *)
(*                                                                         *)
(* The module models hooks/guardian-hook-v2.js:                            *)
(*   - the SecretsGuardian class (compilePatterns, scanContent,            *)
(*     getLineNumber) as operators over character sequences;               *)
(*   - one run of the hook process (configuration load, stdin events,      *)
(*     the 30 second timer, processHookInput, process.exit) as the         *)
(*     specification Spec;                                                 *)
(*   - a SecretsGuardian instance that is scanned repeatedly (the class    *)
(*     is exported for that use) as the specification SpecGuardian.        *)
(*                                                                         *)
(* Text is a sequence of one-character strings.  JSON values are tagged    *)
(* records; JSON.stringify and JSON.parse are modelled on characters.      *)
(***************************************************************************)
EXTENDS Integers, Sequences, FiniteSets, TLC

\* ------------------------------------------------------------------------
\* Bounds of the model
\* ------------------------------------------------------------------------

\* longest free-form text handed to scanContent in SpecGuardian
MaxLen == 3

\* ------------------------------------------------------------------------
\* Generic helpers on sequences of characters
\* ------------------------------------------------------------------------

RECURSIVE Concat(_)
\* Array.prototype.join('') of a sequence of texts
Concat(ss) ==
  IF ss = <<>> THEN <<>> ELSE Head(ss) \o Concat(Tail(ss))

RECURSIVE Join(_, _)
\* Array.prototype.join(sep) of a sequence of texts
Join(ss, sep) ==
  IF ss = <<>> THEN <<>>
  ELSE IF Len(ss) = 1 THEN ss[1]
  ELSE ss[1] \o sep \o Join(Tail(ss), sep)

\* String.prototype.substring(from, to) with 0-based, end-exclusive indices
Substring(s, from, to) ==
  LET f == IF from < 0 THEN 0 ELSE IF from > Len(s) THEN Len(s) ELSE from
      t == IF to < 0 THEN 0 ELSE IF to > Len(s) THEN Len(s) ELSE to
      lo == IF f < t THEN f ELSE t
      hi == IF f < t THEN t ELSE f
  IN  SubSeq(s, lo + 1, hi)

\* all texts over an alphabet of length at most n
TextsUpTo(alphabet, n) ==
  UNION { [1..k -> alphabet] : k \in 0..n }

\* ------------------------------------------------------------------------
\* JavaScript values (the subset the hook meets)
\* ------------------------------------------------------------------------

Undefined == [t |-> "undefined", s |-> <<>>, n |-> 0, items |-> <<>>]
Null      == [t |-> "null",      s |-> <<>>, n |-> 0, items |-> <<>>]
Str(cs)   == [t |-> "string",    s |-> cs,   n |-> 0, items |-> <<>>]
Num(k)    == [t |-> "number",    s |-> <<>>, n |-> k, items |-> <<>>]
\* an array: items is the sequence of its elements
Arr(vs)   == [t |-> "array",     s |-> <<>>, n |-> 0, items |-> vs]
\* an object: items is the sequence of its own properties in insertion order
Obj(kvs)  == [t |-> "object",    s |-> <<>>, n |-> 0, items |-> kvs]
\* one property of an object
KV(key, val) == [k |-> key, v |-> val]

\* typeof v === 'object' (true of null, arrays and objects)
TypeofObject(v) == v.t \in {"null", "array", "object"}

\* ToBoolean(v): the test of `a || b` and of `if (a)`
Truthy(v) ==
  CASE v.t = "undefined" -> FALSE
    [] v.t = "null"      -> FALSE
    [] v.t = "string"    -> v.s # <<>>
    [] v.t = "number"    -> v.n # 0
    [] OTHER             -> TRUE

\* a || b
Or(a, b) == IF Truthy(a) THEN a ELSE b

\* Property access v.key throws a TypeError on null and undefined
GetThrows(v) == v.t \in {"undefined", "null"}

\* v.key for a value on which property access does not throw: an own
\* property of an object, undefined otherwise (arrays, strings and numbers
\* have none of the keys the hook reads).
Get(v, key) ==
  IF v.t = "object" /\ \E i \in 1..Len(v.items) : v.items[i].k = key
  THEN v.items[CHOOSE i \in 1..Len(v.items) :
                 /\ v.items[i].k = key
                 /\ \A j \in (i+1)..Len(v.items) : v.items[j].k # key].v
  ELSE Undefined

\* Array.isArray(v)
IsArray(v) == v.t = "array"

\* ------------------------------------------------------------------------
\* Number and string conversion
\* ------------------------------------------------------------------------

Digit(d) ==
  CASE d = 0 -> "0" [] d = 1 -> "1" [] d = 2 -> "2" [] d = 3 -> "3"
    [] d = 4 -> "4" [] d = 5 -> "5" [] d = 6 -> "6" [] d = 7 -> "7"
    [] d = 8 -> "8" [] d = 9 -> "9"

RECURSIVE Digits(_)
\* Number.prototype.toString for a natural number
Digits(k) ==
  IF k < 10 THEN <<Digit(k)>> ELSE Digits(k \div 10) \o <<Digit(k % 10)>>

RECURSIVE ToStringJS(_)
RECURSIVE ToStringItems(_)
\* elements of an array for Array.prototype.toString: null and undefined give ''
ToStringItems(vs) ==
  IF vs = <<>> THEN <<>>
  ELSE <<(IF Head(vs).t \in {"null", "undefined"} THEN <<>> ELSE ToStringJS(Head(vs)))>>
         \o ToStringItems(Tail(vs))

\* String(v)
ToStringJS(v) ==
  CASE v.t = "string"    -> v.s
    [] v.t = "number"    -> Digits(v.n)
    [] v.t = "null"      -> <<"n","u","l","l">>
    [] v.t = "undefined" -> <<"u","n","d","e","f","i","n","e","d">>
    [] v.t = "array"     -> Join(ToStringItems(v.items), <<",">>)
    [] v.t = "object"    -> <<"[","o","b","j","e","c","t"," ","O","b","j","e","c","t","]">>

\* ------------------------------------------------------------------------
\* JSON.stringify
\* ------------------------------------------------------------------------

\* QuoteJSONString, one character
EscapeChar(c) ==
  CASE c = "\"" -> <<"\\", "\"">>
    [] c = "\\" -> <<"\\", "\\">>
    [] c = "\n" -> <<"\\", "n">>
    [] c = "\t" -> <<"\\", "t">>
    [] OTHER    -> <<c>>

RECURSIVE Escape(_)
Escape(cs) ==
  IF cs = <<>> THEN <<>> ELSE EscapeChar(Head(cs)) \o Escape(Tail(cs))

\* QuoteJSONString
Quote(cs) == <<"\"">> \o Escape(cs) \o <<"\"">>

RECURSIVE Spaces(_)
Spaces(k) == IF k = 0 THEN <<>> ELSE <<" ">> \o Spaces(k - 1)

RECURSIVE Stringify(_, _, _)
RECURSIVE StringifyItems(_, _, _, _)
\* the serialised members of an array (isObj = FALSE) or object (isObj = TRUE)
\* at nesting depth `level`; a property whose value is undefined is left out
\* of an object and written null in an array.
StringifyItems(items, isObj, gap, level) ==
  IF items = <<>> THEN <<>>
  ELSE
    LET it == Head(items) IN
    IF isObj
    THEN IF it.v.t = "undefined"
         THEN StringifyItems(Tail(items), isObj, gap, level)
         ELSE <<Quote(it.k) \o <<":">> \o (IF gap > 0 THEN <<" ">> ELSE <<>>)
                  \o Stringify(it.v, gap, level)>>
              \o StringifyItems(Tail(items), isObj, gap, level)
    ELSE <<(IF it.t = "undefined" THEN <<"n","u","l","l">> ELSE Stringify(it, gap, level))>>
           \o StringifyItems(Tail(items), isObj, gap, level)

\* JSON.stringify(v, null, gap) of a value that is not undefined, at nesting
\* depth `level` (SerializeJSONProperty / SerializeJSONObject / -Array)
Stringify(v, gap, level) ==
  LET open   == IF v.t = "object" THEN <<"{">> ELSE <<"[">>
      close  == IF v.t = "object" THEN <<"}">> ELSE <<"]">>
      parts  == StringifyItems(v.items, v.t = "object", gap, level + 1)
      inner  == IF gap > 0 THEN <<"\n">> \o Spaces(gap * (level + 1)) ELSE <<>>
      outer  == IF gap > 0 THEN <<"\n">> \o Spaces(gap * level) ELSE <<>>
  IN
  CASE v.t = "string" -> Quote(v.s)
    [] v.t = "number" -> Digits(v.n)
    [] v.t = "null"   -> <<"n","u","l","l">>
    [] OTHER ->
         IF parts = <<>> THEN open \o close
         ELSE open \o inner \o Join(parts, <<",">> \o inner) \o outer \o close

\* ------------------------------------------------------------------------
\* Regular expressions: new RegExp(source, 'gmi') and String.matchAll
\*
\* The sources the model compiles are written in a subset of the pattern
\* syntax: a literal character, a character class [..] of literal
\* characters, and either of them followed by the quantifier *.
\* ------------------------------------------------------------------------

LowerCase == <<"a","b","c","d","e","f","g","h","i","j","k","l","m",
               "n","o","p","q","r","s","t","u","v","w","x","y","z">>
UpperCase == <<"A","B","C","D","E","F","G","H","I","J","K","L","M",
               "N","O","P","Q","R","S","T","U","V","W","X","Y","Z">>

\* the upper-case form of every lower-case letter
UpperOf ==
  [ c \in { LowerCase[i] : i \in 1..Len(LowerCase) } |->
      UpperCase[CHOOSE i \in 1..Len(LowerCase) : LowerCase[i] = c] ]

\* Canonicalize(ch) under the flag i: simple upper-casing
Canonicalize(c) == IF c \in DOMAIN UpperOf THEN UpperOf[c] ELSE c

\* the result of a pattern that does not compile (SyntaxError)
CompileError == [ok |-> FALSE, atoms |-> <<>>]

\* an atom of a compiled pattern: the characters it accepts and how often it
\* may repeat (max = Unbounded for the quantifier *)
Unbounded == -1
Atom(set, min, max) == [set |-> set, min |-> min, max |-> max]

RECURSIVE ParsePattern(_, _)
\* the atoms of source[i..].  A quantifier with nothing to repeat and an
\* unterminated character class are syntax errors.
ParsePattern(source, i) ==
  IF i > Len(source) THEN [ok |-> TRUE, atoms |-> <<>>]
  ELSE
    LET c == source[i] IN
    IF c = "*" THEN CompileError
    ELSE IF c = "[" /\ ~ \E j \in (i+1)..Len(source) : source[j] = "]"
    THEN CompileError
    ELSE
      LET close == IF c = "["
                   THEN CHOOSE j \in (i+1)..Len(source) :
                          /\ source[j] = "]"
                          /\ \A h \in (i+1)..(j-1) : source[h] # "]"
                   ELSE i
          set   == IF c = "[" THEN { source[h] : h \in (i+1)..(close-1) } ELSE {c}
          star  == close + 1 <= Len(source) /\ source[close + 1] = "*"
          next  == IF star THEN close + 2 ELSE close + 1
          rest  == ParsePattern(source, next)
      IN  IF rest.ok
          THEN [ok |-> TRUE,
                atoms |-> <<(IF star THEN Atom(set, 0, Unbounded) ELSE Atom(set, 1, 1))>>
                            \o rest.atoms]
          ELSE CompileError

\* new RegExp(source, 'gmi'): a RegExp object with lastIndex 0, or a throw
NewRegExp(source) ==
  LET p == ParsePattern(source, 1)
  IN  [ok |-> p.ok, atoms |-> p.atoms, lastIndex |-> 0]

\* one character against one atom, ignoring case
CharMatches(atom, c) == Canonicalize(c) \in { Canonicalize(x) : x \in atom.set }

RECURSIVE RunLength(_, _, _, _)
\* how many characters from position i (0-based) on the atom accepts in a
\* row, at most `most` of them when most is not Unbounded
RunLength(atom, text, i, most) ==
  IF most # 0 /\ i < Len(text) /\ CharMatches(atom, text[i + 1])
  THEN 1 + RunLength(atom, text, i + 1, IF most = Unbounded THEN most ELSE most - 1)
  ELSE 0

RECURSIVE MatchAt(_, _, _, _)
RECURSIVE TryRepeat(_, _, _, _, _)
\* a greedy quantifier gives back one character at a time, down to its minimum
TryRepeat(atoms, k, text, i, n) ==
  IF n < atoms[k].min THEN -1
  ELSE LET r == MatchAt(atoms, k + 1, text, i + n)
       IN  IF r # -1 THEN r ELSE TryRepeat(atoms, k, text, i, n - 1)

\* the end (0-based, exclusive) of the match of atoms[k..] that starts at
\* position i of text, or -1 when there is none
MatchAt(atoms, k, text, i) ==
  IF k > Len(atoms) THEN i
  ELSE TryRepeat(atoms, k, text, i, RunLength(atoms[k], text, i, atoms[k].max))

\* the least element of a non-empty set of integers
Min(S) == CHOOSE x \in S : \A y \in S : x <= y

RECURSIVE MatchAllFrom(_, _, _)
\* the iteration of %RegExpStringIterator% over a global matcher whose
\* lastIndex is given: RegExpExec finds the first position from lastIndex on
\* at which the pattern matches, the match is yielded and the matcher's
\* lastIndex becomes its end, advanced by one after an empty match; the
\* iteration ends when RegExpExec finds nothing.
MatchAllFrom(atoms, text, lastIndex) ==
  IF \A s \in lastIndex..Len(text) : MatchAt(atoms, 1, text, s) = -1 THEN <<>>
  ELSE
    LET s == CHOOSE s \in lastIndex..Len(text) :
               /\ MatchAt(atoms, 1, text, s) # -1
               /\ \A t \in lastIndex..(s - 1) : MatchAt(atoms, 1, text, t) = -1
        e == MatchAt(atoms, 1, text, s)
    IN  <<[index |-> s, str |-> SubSeq(text, s + 1, e)]>>
          \o MatchAllFrom(atoms, text, IF e = s THEN e + 1 ELSE e)

\* [...text.matchAll(pattern)]: the iteration runs on a clone of the pattern
\* that starts at the pattern's own lastIndex
MatchAll(text, pattern) == MatchAllFrom(pattern.atoms, text, pattern.lastIndex)

\* ------------------------------------------------------------------------
\* Object.entries
\* ------------------------------------------------------------------------

Digits09 == <<"0","1","2","3","4","5","6","7","8","9">>

IsDigit(c) == \E i \in 1..10 : Digits09[i] = c

DigitValue(c) == (CHOOSE i \in 1..10 : Digits09[i] = c) - 1

\* a property key that is a canonical array index (enumerated before the
\* other keys, in ascending numeric order)
IsIndexKey(key) ==
  /\ Len(key) > 0
  /\ \A i \in 1..Len(key) : IsDigit(key[i])
  /\ (Len(key) = 1 \/ key[1] # "0")

RECURSIVE IndexValue(_)
IndexValue(key) ==
  IF key = <<>> THEN 0
  ELSE 10 * IndexValue(SubSeq(key, 1, Len(key) - 1)) + DigitValue(key[Len(key)])

RECURSIVE SortByIndex(_)
\* properties with index keys, ascending
SortByIndex(items) ==
  IF items = <<>> THEN <<>>
  ELSE
    LET m == CHOOSE i \in 1..Len(items) :
               \A j \in 1..Len(items) :
                 \/ IndexValue(items[i].k) < IndexValue(items[j].k)
                 \/ (IndexValue(items[i].k) = IndexValue(items[j].k) /\ i <= j)
    IN  <<items[m]>> \o SortByIndex(SubSeq(items, 1, m - 1) \o SubSeq(items, m + 1, Len(items)))

\* OrdinaryOwnPropertyKeys of an object: index keys ascending, then string
\* keys in insertion order
OwnProperties(items) ==
  SortByIndex(SelectSeq(items, LAMBDA it : IsIndexKey(it.k)))
    \o SelectSeq(items, LAMBDA it : ~ IsIndexKey(it.k))

\* Object.entries(v) throws a TypeError on undefined and null
EntriesThrows(v) == v.t \in {"undefined", "null"}

\* Object.entries(v) otherwise: own properties of an object, the indexed
\* elements of an array, the indexed characters of a string, nothing of a number
Entries(v) ==
  CASE v.t = "object" -> OwnProperties(v.items)
    [] v.t = "array"  -> [i \in 1..Len(v.items) |-> KV(Digits(i - 1), v.items[i])]
    [] v.t = "string" -> [i \in 1..Len(v.s) |-> KV(Digits(i - 1), Str(<<v.s[i]>>))]
    [] OTHER          -> <<>>

\* ------------------------------------------------------------------------
\* State
\* ------------------------------------------------------------------------

VARIABLES
  pc,          \* the hook process: "init", "reading" (waiting for events), "exited"
  configFile,  \* secrets-guardian.json: [exists, text]
  agentConfig, \* the module-level agentConfig, Undefined until loaded
  stdin,       \* the text the host has not delivered yet
  input,       \* main's `input`: the chunks received so far
  elapsed,     \* milliseconds since main() armed the timer
  exitCode,    \* the code the process exited with, NoExit before
  stderr,      \* what was written to the error stream, in order
  guardian,    \* the SecretsGuardian instance: "none", "ready", "threw"
  thisPatterns,\* this.patterns of the instance
  lastContent, \* the argument of the latest scanContent call
  lastResults, \* what the latest scanContent call returned
  first,       \* the argument and the result of the instance's first scanContent call,
               \* and whether a different argument has been scanned since
  via,         \* the handler that ended the process: "config", "end", "error", "timeout"
  variant,     \* the file the SecretsGuardian class is taken from: "v2", "v1"
  settingsFile,\* ~/.claude/settings.json: [exists, text]
  host,        \* the host side: the installer script that ran last and its exit
               \* code, and the timeout (seconds) under which the hook was launched
  world,       \* what the session-start hook scans: the value of an environment
               \* variable and a file of the working directory
  stdout       \* what was written to the output stream, in order

vars == << pc, configFile, agentConfig, stdin, input, elapsed, exitCode, stderr,
           guardian, thisPatterns, lastContent, lastResults, first, via, variant, settingsFile, host,
           world, stdout >>

hookVars == << pc, configFile, stdin, input, elapsed, exitCode, stderr, via, settingsFile, host,
              world, stdout >>

\* ------------------------------------------------------------------------
\* class SecretsGuardian
\* ------------------------------------------------------------------------

\* the preview length of a finding
PreviewLen == 50

\* the remediation hints of a blocked scan
Recommendations ==
  << "Remove hardcoded secrets from the code",
     "Use environment variables for sensitive configuration",
     "Consider using a secrets management service",
     "Add the file to .gitignore if it contains secrets" >>

\* patterns.map(...).filter(p => p !== null) of one category: every source
\* that compiles, in the order of the list; a source that throws is dropped
CompileList(sources) ==
  LET compiled == [i \in 1..Len(sources) |-> NewRegExp(ToStringJS(sources[i]))]
      kept     == SelectSeq(compiled, LAMBDA r : r.ok)
  IN  [i \in 1..Len(kept) |-> [atoms |-> kept[i].atoms, lastIndex |-> kept[i].lastIndex]]

\* compilePatterns(patternGroups) of guardian-hook-v2.js throws outside its
\* inner try: Object.entries of undefined or null, and .map of a category
\* value that is not an array
CompileThrowsV2(patternGroups) ==
  \/ EntriesThrows(patternGroups)
  \/ \E i \in 1..Len(Entries(patternGroups)) : ~ IsArray(Entries(patternGroups)[i].v)

\* compilePatterns(patternGroups) of guardian-hook.js has no try around
\* new RegExp: a source that does not compile throws as well
CompileThrowsV1(patternGroups) ==
  \/ CompileThrowsV2(patternGroups)
  \/ \E i \in 1..Len(Entries(patternGroups)) :
       \E j \in 1..Len(Entries(patternGroups)[i].v.items) :
         ~ NewRegExp(ToStringJS(Entries(patternGroups)[i].v.items[j])).ok

\* compilePatterns(patternGroups) throws
CompileThrows(patternGroups) ==
  IF variant = "v1" THEN CompileThrowsV1(patternGroups) ELSE CompileThrowsV2(patternGroups)

\* compilePatterns(patternGroups): the compiled registry, one entry per
\* category in the order of Object.entries
CompilePatterns(patternGroups) ==
  LET es == Entries(patternGroups)
  IN  [i \in 1..Len(es) |->
         [category |-> es[i].k, patterns |-> CompileList(es[i].v.items)]]

RECURSIVE Split(_, _)
\* String.prototype.split(sep) for a one-character separator
Split(s, sep) ==
  IF \A i \in 1..Len(s) : s[i] # sep THEN <<s>>
  ELSE LET i == Min({ j \in 1..Len(s) : s[j] = sep })
       IN  <<SubSeq(s, 1, i - 1)>> \o Split(SubSeq(s, i + 1, Len(s)), sep)

\* a getLineNumber that counts the line breaks and forgets the first line
GetLineNumberZeroBased(content, index) ==
  LET lines == Split(Substring(content, 0, index), "\n")
  IN  Len(lines) - 1

\* getLineNumber(content, index)
GetLineNumber(content, index) ==
  LET lines == Split(Substring(content, 0, index), "\n")
  IN  Len(lines)

\* the preview of a match in guardian-hook-v2.js:
\* match[0].substring(0, 50) + (match[0].length > 50 ? '...' : '')
PreviewV2(str) ==
  Substring(str, 0, PreviewLen)
    \o (IF Len(str) > PreviewLen THEN <<".",".",".">> ELSE <<>>)

\* the preview of a match in guardian-hook.js: match[0].substring(0, 50) + '...'
PreviewV1(str) == Substring(str, 0, PreviewLen) \o <<".",".",".">>

Preview(str) == IF variant = "v1" THEN PreviewV1(str) ELSE PreviewV2(str)

\* the object literal `secret` built for one match
Secret(category, contentStr, match) ==
  [ type     |-> category,
    match    |-> Preview(match.str),
    line     |-> GetLineNumber(contentStr, match.index),
    position |-> match.index ]

\* a scanContent whose findings list lives on the instance and is never
\* emptied
NewResultsStale ==
  [ status |-> "safe", secrets_found |-> lastResults.secrets_found,
    recommendations |-> <<>>, blocked |-> FALSE ]

\* the object literal `results` scanContent starts from
NewResults ==
  [ status |-> "safe", secrets_found |-> <<>>, recommendations |-> <<>>,
    blocked |-> FALSE ]

\* the indentation of JSON.stringify in scanContent: (content, null, 2) in
\* guardian-hook-v2.js, (content) in guardian-hook.js
StringifyGap == IF variant = "v1" THEN 0 ELSE 2

\* the contentStr of scanContent: JSON.stringify of an object (null and
\* arrays included), String(content) of anything else
ContentStr(content) ==
  IF TypeofObject(content) THEN Stringify(content, StringifyGap, 0)
  ELSE ToStringJS(content)

\* pattern.lastIndex = 0
ResetLastIndex(pattern) == [pattern EXCEPT !.lastIndex = 0]

RECURSIVE PushMatchesDedup(_, _, _, _)
\* a loop that skips a match at a position that is already reported
PushMatchesDedup(results, category, contentStr, matches) ==
  IF matches = <<>> THEN results
  ELSE PushMatchesDedup(
         IF \E k \in 1..Len(results.secrets_found) :
              results.secrets_found[k].position = Head(matches).index
         THEN results
         ELSE [results EXCEPT
                 !.secrets_found = Append(@, Secret(category, contentStr, Head(matches))),
                 !.status = "danger"],
         category, contentStr, Tail(matches))

RECURSIVE PushMatches(_, _, _, _)
\* for (const match of matches) { results.secrets_found.push(secret);
\*                                results.status = 'danger' }
PushMatches(results, category, contentStr, matches) ==
  IF matches = <<>> THEN results
  ELSE PushMatches(
         [results EXCEPT
            !.secrets_found = Append(@, Secret(category, contentStr, Head(matches))),
            !.status = "danger"],
         category, contentStr, Tail(matches))

RECURSIVE ScanPatternsTwice(_, _, _, _)
\* a loop over the patterns of one category that runs matchAll twice for
\* every pattern and records the matches of both runs
ScanPatternsTwice(results, category, patterns, contentStr) ==
  IF patterns = <<>> THEN results
  ELSE ScanPatternsTwice(
         PushMatches(
           PushMatches(results, category, contentStr,
                       MatchAll(contentStr, ResetLastIndex(Head(patterns)))),
           category, contentStr, MatchAll(contentStr, ResetLastIndex(Head(patterns)))),
         category, Tail(patterns), contentStr)

RECURSIVE ScanPatterns(_, _, _, _)
\* for (const pattern of patterns) of one category
ScanPatterns(results, category, patterns, contentStr) ==
  IF patterns = <<>> THEN results
  ELSE ScanPatterns(
         PushMatches(results, category, contentStr,
                     MatchAll(contentStr, ResetLastIndex(Head(patterns)))),
         category, Tail(patterns), contentStr)

RECURSIVE ScanCategoriesReverse(_, _, _)
\* a loop that visits the categories from the last to the first
ScanCategoriesReverse(results, registry, contentStr) ==
  IF registry = <<>> THEN results
  ELSE ScanPatterns(ScanCategoriesReverse(results, Tail(registry), contentStr),
                    Head(registry).category, Head(registry).patterns, contentStr)

RECURSIVE ScanCategories(_, _, _)
\* for (const [category, patterns] of Object.entries(this.patterns))
ScanCategories(results, registry, contentStr) ==
  IF registry = <<>> THEN results
  ELSE ScanCategories(
         ScanPatterns(results, Head(registry).category, Head(registry).patterns, contentStr),
         Tail(registry), contentStr)

\* a scanContent that blocks only from the second finding on
ConcludeOffByOne(results) ==
  IF Len(results.secrets_found) > 1
  THEN [results EXCEPT !.blocked = TRUE, !.recommendations = Recommendations]
  ELSE results

\* if (results.secrets_found.length > 0) { blocked = true; recommendations = [...] }
Conclude(results) ==
  IF Len(results.secrets_found) > 0
  THEN [results EXCEPT !.blocked = TRUE, !.recommendations = Recommendations]
  ELSE results

\* scanContent(content) on a guardian whose this.patterns is `registry`
ScanContent(registry, content) ==
  Conclude(ScanCategories(NewResults, registry, ContentStr(content)))

\* a scan that consumes the registry: the first category is gone afterwards
RegistryAfterScanShift(registry) ==
  IF registry = <<>> THEN registry ELSE Tail(registry)

\* this.patterns after scanContent: every pattern has had its lastIndex reset
\* and matchAll moved only its own clone
RegistryAfterScan(registry) ==
  [i \in 1..Len(registry) |->
     [registry[i] EXCEPT
        !.patterns = [j \in 1..Len(registry[i].patterns) |->
                        ResetLastIndex(registry[i].patterns[j])]]]

\* ------------------------------------------------------------------------
\* Property names and string literals of the hook
\* ------------------------------------------------------------------------
K_patterns == <<"p","a","t","t","e","r","n","s">>
K_tool_name == <<"t","o","o","l","_","n","a","m","e">>
K_tool_input == <<"t","o","o","l","_","i","n","p","u","t">>
K_content == <<"c","o","n","t","e","n","t">>
K_file_content == <<"f","i","l","e","_","c","o","n","t","e","n","t">>
K_new_string == <<"n","e","w","_","s","t","r","i","n","g">>
K_new_content == <<"n","e","w","_","c","o","n","t","e","n","t">>
K_old_string == <<"o","l","d","_","s","t","r","i","n","g">>
K_edits == <<"e","d","i","t","s">>
K_command == <<"c","o","m","m","a","n","d">>
K_prompt == <<"p","r","o","m","p","t">>
K_messages == <<"m","e","s","s","a","g","e","s">>
K_role == <<"r","o","l","e">>
K_text == <<"t","e","x","t">>
K_notification_type == <<"n","o","t","i","f","i","c","a","t","i","o","n","_","t","y","p","e">>
K_file_path == <<"f","i","l","e","_","p","a","t","h">>
\* the keys of the event format of guardian-hook.js
K_toolName == <<"t","o","o","l","N","a","m","e">>
K_toolInput == <<"t","o","o","l","I","n","p","u","t">>

S_Write == <<"W","r","i","t","e">>
S_Edit == <<"E","d","i","t">>
S_MultiEdit == <<"M","u","l","t","i","E","d","i","t">>
S_Bash == <<"B","a","s","h">>
S_Task == <<"T","a","s","k">>
S_assistant == <<"a","s","s","i","s","t","a","n","t">>
S_user == <<"u","s","e","r">>
S_Read == <<"R","e","a","d">>

\* ------------------------------------------------------------------------
\* processHookInput: selection of the text to scan
\* ------------------------------------------------------------------------

\* a || b || ''
OrEmpty(a, b) == Or(Or(a, b), Str(<<>>))

\* the three ways the selection ends
ToScan(eventType, content) == [kind |-> "scan",  eventType |-> eventType, content |-> content]
Thrown(eventType)          == [kind |-> "throw", eventType |-> eventType, content |-> Undefined]
PassThrough(eventType)     == [kind |-> "exit",  eventType |-> eventType, content |-> Undefined]

\* a MultiEdit case that scans nothing when edits is not an array
SelectMultiEditEmpty(tool_input) ==
  LET edits == Get(tool_input, K_edits) IN
  IF Truthy(edits) /\ IsArray(edits)
  THEN IF \E i \in 1..Len(edits.items) : GetThrows(edits.items[i])
       THEN Thrown("PreToolUse/PostToolUse")
       ELSE ToScan("PreToolUse/PostToolUse",
              Str(Join([i \in 1..Len(edits.items) |->
                          ToStringJS(OrEmpty(Get(edits.items[i], K_new_string),
                                             Get(edits.items[i], K_new_content)))],
                       <<"\n">>)))
  ELSE ToScan("PreToolUse/PostToolUse", Str(<<>>))

\* case 'MultiEdit'
SelectMultiEdit(tool_input) ==
  LET edits == Get(tool_input, K_edits) IN
  IF Truthy(edits) /\ IsArray(edits)
  THEN IF \E i \in 1..Len(edits.items) : GetThrows(edits.items[i])
       THEN Thrown("PreToolUse/PostToolUse")
       ELSE ToScan("PreToolUse/PostToolUse",
              Str(Join([i \in 1..Len(edits.items) |->
                          ToStringJS(OrEmpty(Get(edits.items[i], K_new_string),
                                             Get(edits.items[i], K_new_content)))],
                       <<"\n">>)))
  ELSE ToScan("PreToolUse/PostToolUse", Str(Stringify(tool_input, 0, 0)))

\* a switch without a default case: contentToScan stays '' for other tools
SelectToolNoDefault(tool_name, tool_input) ==
  LET known == tool_name \in { Str(S_Write), Str(S_Edit), Str(S_MultiEdit),
                               Str(S_Bash), Str(S_Task) }
  IN
  IF known /\ GetThrows(tool_input) THEN Thrown("PreToolUse/PostToolUse")
  ELSE
  CASE tool_name = Str(S_Write) ->
         ToScan("PreToolUse/PostToolUse",
                OrEmpty(Get(tool_input, K_content), Get(tool_input, K_file_content)))
    [] tool_name = Str(S_Edit) ->
         ToScan("PreToolUse/PostToolUse",
                OrEmpty(Get(tool_input, K_new_string), Get(tool_input, K_new_content)))
    [] tool_name = Str(S_MultiEdit) -> SelectMultiEdit(tool_input)
    [] tool_name = Str(S_Bash) ->
         ToScan("PreToolUse/PostToolUse", Or(Get(tool_input, K_command), Str(<<>>)))
    [] tool_name = Str(S_Task) ->
         ToScan("PreToolUse/PostToolUse", Or(Get(tool_input, K_prompt), Str(<<>>)))
    [] OTHER ->
         ToScan("PreToolUse/PostToolUse", Str(<<>>))

\* a switch every case of which scans the whole serialized tool_input
SelectToolWhole(tool_name, tool_input) ==
  ToScan("PreToolUse/PostToolUse", Str(Stringify(tool_input, 0, 0)))

\* a switch whose Write and Edit cases consult the alternate field first
SelectToolFallbackFirst(tool_name, tool_input) ==
  LET known == tool_name \in { Str(S_Write), Str(S_Edit), Str(S_MultiEdit),
                               Str(S_Bash), Str(S_Task) }
  IN
  IF known /\ GetThrows(tool_input) THEN Thrown("PreToolUse/PostToolUse")
  ELSE
  CASE tool_name = Str(S_Write) ->
         ToScan("PreToolUse/PostToolUse",
                OrEmpty(Get(tool_input, K_file_content), Get(tool_input, K_content)))
    [] tool_name = Str(S_Edit) ->
         ToScan("PreToolUse/PostToolUse",
                OrEmpty(Get(tool_input, K_new_content), Get(tool_input, K_new_string)))
    [] tool_name = Str(S_MultiEdit) -> SelectMultiEdit(tool_input)
    [] tool_name = Str(S_Bash) ->
         ToScan("PreToolUse/PostToolUse", Or(Get(tool_input, K_command), Str(<<>>)))
    [] tool_name = Str(S_Task) ->
         ToScan("PreToolUse/PostToolUse", Or(Get(tool_input, K_prompt), Str(<<>>)))
    [] OTHER ->
         ToScan("PreToolUse/PostToolUse", Str(Stringify(tool_input, 0, 0)))

\* switch (tool_name) { ... }
SelectTool(tool_name, tool_input) ==
  LET known == tool_name \in { Str(S_Write), Str(S_Edit), Str(S_MultiEdit),
                               Str(S_Bash), Str(S_Task) }
  IN
  IF known /\ GetThrows(tool_input) THEN Thrown("PreToolUse/PostToolUse")
  ELSE
  CASE tool_name = Str(S_Write) ->
         ToScan("PreToolUse/PostToolUse",
                OrEmpty(Get(tool_input, K_content), Get(tool_input, K_file_content)))
    [] tool_name = Str(S_Edit) ->
         ToScan("PreToolUse/PostToolUse",
                OrEmpty(Get(tool_input, K_new_string), Get(tool_input, K_new_content)))
    [] tool_name = Str(S_MultiEdit) -> SelectMultiEdit(tool_input)
    [] tool_name = Str(S_Bash) ->
         ToScan("PreToolUse/PostToolUse", Or(Get(tool_input, K_command), Str(<<>>)))
    [] tool_name = Str(S_Task) ->
         ToScan("PreToolUse/PostToolUse", Or(Get(tool_input, K_prompt), Str(<<>>)))
    [] OTHER ->
         ToScan("PreToolUse/PostToolUse", Str(Stringify(tool_input, 0, 0)))

\* the text of one assistant message
MessageText(m) ==
  LET c == Get(m, K_content) IN
  IF c.t = "string" THEN c.s
  ELSE IF IsArray(c)
  THEN Join([i \in 1..Len(c.items) |->
               ToStringJS(Or(Get(c.items[i], K_text), Str(<<>>)))], <<"\n">>)
  ELSE <<>>

\* m.content.map(c => c.text || '') throws when a segment is null
MessageThrows(m) ==
  LET c == Get(m, K_content) IN
  IsArray(c) /\ \E i \in 1..Len(c.items) : GetThrows(c.items[i])

\* a Stop/SubagentStop branch without the filter on role
SelectMessagesAllRoles(messages) ==
  IF \E i \in 1..Len(messages.items) : GetThrows(messages.items[i])
  THEN Thrown("Stop/SubagentStop")
  ELSE
    IF \E i \in 1..Len(messages.items) : MessageThrows(messages.items[i])
    THEN Thrown("Stop/SubagentStop")
    ELSE ToScan("Stop/SubagentStop",
           Str(Join([i \in 1..Len(messages.items) |->
                       MessageText(messages.items[i])], <<"\n">>)))

\* the Stop/SubagentStop branch
SelectMessages(messages) ==
  IF \E i \in 1..Len(messages.items) : GetThrows(messages.items[i])
  THEN Thrown("Stop/SubagentStop")
  ELSE
    LET assistantMessages ==
          SelectSeq(messages.items, LAMBDA m : Get(m, K_role) = Str(S_assistant))
    IN  IF \E i \in 1..Len(assistantMessages) : MessageThrows(assistantMessages[i])
        THEN Thrown("Stop/SubagentStop")
        ELSE ToScan("Stop/SubagentStop",
               Str(Join([i \in 1..Len(assistantMessages) |->
                           MessageText(assistantMessages[i])], <<"\n">>)))

\* a selection whose prompt branch scans the whole event
SelectContentPromptWhole(data) ==
  IF GetThrows(data) THEN Thrown("unknown")
  ELSE IF Truthy(Get(data, K_tool_name)) /\ Get(data, K_tool_input) # Undefined
  THEN SelectTool(Get(data, K_tool_name), Get(data, K_tool_input))
  ELSE IF Truthy(Get(data, K_messages)) /\ IsArray(Get(data, K_messages))
  THEN SelectMessages(Get(data, K_messages))
  ELSE IF Truthy(Get(data, K_prompt))
  THEN ToScan("UserPromptSubmit", Str(Stringify(data, 0, 0)))
  ELSE IF Truthy(Get(data, K_notification_type))
  THEN PassThrough("Notification")
  ELSE ToScan("Unknown", Str(Stringify(data, 0, 0)))

\* a selection without the notification branch: a notification is scanned
\* whole, as an unknown shape is
SelectContentScanNotification(data) ==
  IF GetThrows(data) THEN Thrown("unknown")
  ELSE IF Truthy(Get(data, K_tool_name)) /\ Get(data, K_tool_input) # Undefined
  THEN SelectTool(Get(data, K_tool_name), Get(data, K_tool_input))
  ELSE IF Truthy(Get(data, K_messages)) /\ IsArray(Get(data, K_messages))
  THEN SelectMessages(Get(data, K_messages))
  ELSE IF Truthy(Get(data, K_prompt))
  THEN ToScan("UserPromptSubmit", Get(data, K_prompt))
  ELSE ToScan("Unknown", Str(Stringify(data, 0, 0)))

\* a selection that lets every unknown shape through without a scan
SelectContentSkipUnknown(data) ==
  IF GetThrows(data) THEN Thrown("unknown")
  ELSE IF Truthy(Get(data, K_tool_name)) /\ Get(data, K_tool_input) # Undefined
  THEN SelectTool(Get(data, K_tool_name), Get(data, K_tool_input))
  ELSE IF Truthy(Get(data, K_messages)) /\ IsArray(Get(data, K_messages))
  THEN SelectMessages(Get(data, K_messages))
  ELSE IF Truthy(Get(data, K_prompt))
  THEN ToScan("UserPromptSubmit", Get(data, K_prompt))
  ELSE PassThrough("Unknown")

\* the detection of the event type and the extraction of contentToScan, for
\* parsed data; Object.keys(data) in the first log line throws on null
SelectContent(data) ==
  IF GetThrows(data) THEN Thrown("unknown")
  ELSE IF Truthy(Get(data, K_tool_name)) /\ Get(data, K_tool_input) # Undefined
  THEN SelectTool(Get(data, K_tool_name), Get(data, K_tool_input))
  ELSE IF Truthy(Get(data, K_messages)) /\ IsArray(Get(data, K_messages))
  THEN SelectMessages(Get(data, K_messages))
  ELSE IF Truthy(Get(data, K_prompt))
  THEN ToScan("UserPromptSubmit", Get(data, K_prompt))
  ELSE IF Truthy(Get(data, K_notification_type))
  THEN PassThrough("Notification")
  ELSE ToScan("Unknown", Str(Stringify(data, 0, 0)))

\* ------------------------------------------------------------------------
\* Inputs of the model: configurations, events, texts
\* ------------------------------------------------------------------------

C_aws == <<"a","w","s">>
C_api == <<"a","p","i">>

\* pattern sources: two literals, a pattern that matches the empty string,
\* and two that do not compile
P_ak     == Str(<<"a","k">>)
P_sk     == Str(<<"s","k">>)
P_k      == Str(<<"k">>)
P_aa     == Str(<<"a","a">>)
P_aStar  == Str(<<"a","*">>)
P_open   == Str(<<"[","a">>)
P_repeat == Str(<<"*","k">>)

Config(patternGroups) == Obj(<<KV(K_patterns, patternGroups)>>)

\* two categories, one source that does not compile
Cfg_Good == Config(Obj(<<KV(C_aws, Arr(<<P_open, P_ak>>)), KV(C_api, Arr(<<P_sk>>))>>))
\* two categories whose patterns match overlapping text
Cfg_Overlap == Config(Obj(<<KV(C_aws, Arr(<<P_ak, P_repeat, P_aa>>)), KV(C_api, Arr(<<P_k, P_ak>>))>>))
\* an index-like category name after a string one, and an empty-matching pattern
Cfg_Index == Config(Obj(<<KV(C_api, Arr(<<P_k, P_ak>>)), KV(<<"1">>, Arr(<<P_aStar>>))>>))
\* a category all of whose sources fail to compile
Cfg_AllBad == Config(Obj(<<KV(C_aws, Arr(<<P_open>>)), KV(C_api, Arr(<<P_ak>>))>>))
\* an empty patterns mapping
Cfg_Empty == Config(Obj(<<>>))
\* valid JSON without a patterns mapping
Cfg_NoPatterns == Obj(<<>>)
\* valid JSON: null
Cfg_Null == Null
\* a category whose value is not a list
Cfg_NotList == Config(Obj(<<KV(C_aws, P_ak)>>))

\* the configurations a SecretsGuardian is constructed from in SpecGuardian
GuardianConfigs ==
  { Cfg_Good, Cfg_Overlap, Cfg_Index, Cfg_AllBad, Cfg_Empty,
    Cfg_NoPatterns, Cfg_Null, Cfg_NotList }

\* the values handed to scanContent in SpecGuardian: every text over a
\* two-letter alphabet up to MaxLen, texts with line breaks, and values
\* that are not strings
ScanAlphabet == {"a", "K"}

\* a line of PreviewLen letters followed by a line of one letter more
T_longLines ==
  Str([i \in 1..PreviewLen |-> "a"] \o <<"\n">> \o [i \in 1..(PreviewLen + 1) |-> "a"])

GuardianContents ==
  { Str(t) : t \in TextsUpTo(ScanAlphabet, MaxLen) }
    \cup { Str(<<"x","\n","A","k">>), Str(<<"a","k","\n","\n","a","K">>),
           Obj(<<KV(<<"q">>, Str(<<"a","k">>))>>), Arr(<<Str(<<"z">>)>>),
           Null, Undefined, Num(7), T_longLines }

\* the events of the hook's standard input
ToolEvent(name, tool_input) == Obj(<<KV(K_tool_name, Str(name)), KV(K_tool_input, tool_input)>>)
Message(role, content) == Obj(<<KV(K_role, Str(role)), KV(K_content, content)>>)

T_secret == Str(<<"x","=","A","k">>)
T_secret2 == Str(<<"s","k","\n","a","k">>)
T_safe   == Str(<<"h","i">>)
\* the access key id of the test suite
T_awsKeyId == Str(<<"A","K","I","A","I","O","S","F","O","D","N","N","7","E","X","A","M","P","L","E">>)

HookEvents ==
  { ToolEvent(S_Write, Obj(<<KV(K_content, T_secret)>>)),
    ToolEvent(S_Write, Obj(<<KV(K_content, T_safe)>>)),
    ToolEvent(S_Write, Obj(<<KV(K_content, T_awsKeyId)>>)),
    ToolEvent(S_Write, Obj(<<KV(K_content, Null)>>)),
    ToolEvent(S_Write, Obj(<<KV(K_file_path, T_secret)>>)),
    ToolEvent(S_Write, Null),
    ToolEvent(S_Write, Obj(<<KV(K_content, Str(<<>>)), KV(K_file_path, T_secret)>>)),
    ToolEvent(S_Write, Obj(<<KV(K_content, T_safe), KV(K_file_content, T_secret)>>)),
    ToolEvent(S_Bash, Obj(<<KV(K_file_path, T_secret)>>)),
    ToolEvent(S_Edit, Obj(<<KV(K_old_string, T_secret), KV(K_new_string, T_safe)>>)),
    ToolEvent(S_Edit, Obj(<<KV(K_new_content, T_secret2)>>)),
    ToolEvent(S_MultiEdit, Obj(<<KV(K_edits, Arr(<<Obj(<<KV(K_new_string, T_safe)>>),
                                                   Obj(<<KV(K_new_string, T_secret)>>)>>))>>)),
    ToolEvent(S_MultiEdit, Obj(<<KV(K_edits, Arr(<<Null>>))>>)),
    ToolEvent(S_MultiEdit, Obj(<<KV(K_new_string, T_secret)>>)),
    ToolEvent(S_MultiEdit, Obj(<<KV(K_edits, T_secret)>>)),
    ToolEvent(S_MultiEdit, Obj(<<KV(K_edits, Arr(<<Obj(<<KV(K_old_string, T_secret)>>),
                                                   Obj(<<KV(K_new_content, T_safe)>>)>>))>>)),
    ToolEvent(S_Bash, Obj(<<KV(K_command, T_secret)>>)),
    ToolEvent(S_Task, Obj(<<KV(K_prompt, T_safe)>>)),
    ToolEvent(S_Read, Obj(<<KV(K_file_path, T_secret)>>)),
    ToolEvent(S_Read, Obj(<<KV(K_file_path, T_safe)>>)),
    Obj(<<KV(K_messages, Arr(<<Message(S_user, T_safe), Message(S_assistant, T_secret)>>))>>),
    Obj(<<KV(K_messages, Arr(<<Message(S_user, T_secret), Message(S_assistant, T_safe)>>))>>),
    Obj(<<KV(K_messages, Arr(<<Message(S_assistant,
                                  Arr(<<Obj(<<KV(K_text, T_safe)>>), Obj(<<KV(K_text, T_secret)>>)>>))>>))>>),
    Obj(<<KV(K_messages, Arr(<<Null>>))>>),
    Obj(<<KV(K_prompt, T_secret)>>),
    Obj(<<KV(K_prompt, T_safe)>>),
    Obj(<<KV(K_notification_type, T_safe), KV(K_content, T_secret)>>),
    Obj(<<KV(K_content, T_secret)>>),
    Obj(<<>>),
    T_secret,
    T_safe,
    Num(5),
    Null }

\* the events in the format of guardian-hook.js ({toolName, toolInput}), as
\* in test-claude-hook.sh, and values that are not such events
HookEventsV1 ==
  { Obj(<<KV(K_toolName, Str(S_Write)), KV(K_toolInput, Obj(<<KV(K_content, T_secret)>>))>>),
    Obj(<<KV(K_toolName, Str(S_Write)), KV(K_toolInput, Obj(<<KV(K_content, T_safe)>>))>>),
    Obj(<<KV(K_toolName, Str(S_Write)), KV(K_toolInput, Null)>>),
    Obj(<<KV(K_toolName, Str(S_Edit)),
          KV(K_toolInput, Obj(<<KV(K_old_string, T_secret), KV(K_new_string, T_safe)>>))>>),
    Obj(<<KV(K_toolName, Str(S_Edit)), KV(K_toolInput, Obj(<<KV(K_new_string, T_secret2)>>))>>),
    Obj(<<KV(K_toolName, Str(S_Edit)), KV(K_toolInput, Obj(<<KV(K_file_path, T_secret)>>))>>),
    Obj(<<KV(K_toolName, Str(S_MultiEdit)),
          KV(K_toolInput, Obj(<<KV(K_edits, Arr(<<Obj(<<KV(K_new_string, T_safe)>>),
                                                  Obj(<<KV(K_new_string, T_secret)>>)>>))>>))>>),
    Obj(<<KV(K_toolName, Str(S_MultiEdit)), KV(K_toolInput, Obj(<<KV(K_edits, Arr(<<Null>>))>>))>>),
    Obj(<<KV(K_toolName, Str(S_MultiEdit)), KV(K_toolInput, Obj(<<KV(K_edits, T_secret)>>))>>),
    Obj(<<KV(K_toolName, Str(S_Bash)), KV(K_toolInput, Obj(<<KV(K_command, T_secret)>>))>>),
    Obj(<<KV(K_toolName, Str(S_Read)), KV(K_toolInput, Obj(<<KV(K_file_path, T_secret)>>))>>),
    Obj(<<KV(K_toolName, Str(S_Read)), KV(K_toolInput, Obj(<<KV(K_file_path, T_safe)>>))>>),
    Obj(<<KV(K_toolName, Str(S_Read))>>) }

\* events that satisfy several shape tests, with the keys of either format
MixedEvents ==
  { Obj(<<KV(K_tool_name, Str(S_Write)), KV(K_tool_input, Obj(<<KV(K_content, T_safe)>>)),
          KV(K_messages, Arr(<<Message(S_assistant, T_secret)>>))>>),
    Obj(<<KV(K_toolName, Str(S_Write)), KV(K_toolInput, Obj(<<KV(K_content, T_safe)>>)),
          KV(K_messages, Arr(<<Message(S_assistant, T_secret)>>))>>),
    Obj(<<KV(K_tool_name, Str(S_Write)), KV(K_tool_input, Obj(<<KV(K_content, T_secret)>>)),
          KV(K_prompt, T_safe)>>),
    Obj(<<KV(K_toolName, Str(S_Write)), KV(K_toolInput, Obj(<<KV(K_content, T_secret)>>)),
          KV(K_prompt, T_safe)>>),
    Obj(<<KV(K_messages, Arr(<<Message(S_assistant, T_safe)>>)), KV(K_prompt, T_secret)>>),
    Obj(<<KV(K_messages, Arr(<<Message(S_assistant, T_secret)>>)),
          KV(K_notification_type, T_safe)>>),
    Obj(<<KV(K_prompt, T_safe), KV(K_notification_type, T_safe), KV(K_content, T_secret)>>),
    Obj(<<KV(K_notification_type, T_safe), KV(K_content, T_secret)>>),
    Obj(<<KV(K_content, T_secret)>>),
    Obj(<<KV(K_prompt, T_secret)>>) }

K_matcher == <<"m","a","t","c","h","e","r">>
K_source == <<"s","o","u","r","c","e">>
S_startup == <<"s","t","a","r","t","u","p">>
S_resume == <<"r","e","s","u","m","e">>
S_clear == <<"c","l","e","a","r">>

\* the payloads of a SessionStart event, and values that are not such events
SessionEvents ==
  { Obj(<<KV(K_source, Str(S_startup))>>),
    Obj(<<KV(K_source, Str(S_resume))>>),
    Obj(<<KV(K_matcher, Str(S_clear))>>),
    Obj(<<>>),
    Num(5),
    Null }

\* a configuration all of whose sources compile
Cfg_Valid == Config(Obj(<<KV(C_aws, Arr(<<P_ak>>)), KV(C_api, Arr(<<P_sk>>))>>))

\* text that is not JSON
NotJson == <<"{","\"","a","k">>

\* what the host writes to the hook's standard input: an event in compact
\* form followed by a line break, text that is not JSON, or nothing but
\* white space
StdinTexts ==
  { Stringify(e, 0, 0) \o <<"\n">> : e \in HookEvents }
    \cup { NotJson, <<>>, <<" ","\n">> }

\* secrets-guardian.json beside the hook: absent, not JSON, or the
\* two-space indented form of a configuration
ConfigFiles ==
  { [exists |-> FALSE, text |-> <<>>], [exists |-> TRUE, text |-> NotJson] }
    \cup { [exists |-> TRUE, text |-> Stringify(c, 2, 0)] :
             c \in { Cfg_Good, Cfg_Index, Cfg_Empty, Cfg_NoPatterns, Cfg_Null, Cfg_NotList } }

\* ------------------------------------------------------------------------
\* Settings registration: scripts/update-settings.js, scripts/configure-hooks.js
\*
\* The settings the model meets are null or an object whose `hooks`, when
\* present, is an object; an event's list, an entry and a hook may be of
\* any kind.
\* ------------------------------------------------------------------------

K_hooks == <<"h","o","o","k","s">>
K_type == <<"t","y","p","e">>
K_timeout == <<"t","i","m","e","o","u","t">>

E_PreToolUse == <<"P","r","e","T","o","o","l","U","s","e">>
E_UserPromptSubmit == <<"U","s","e","r","P","r","o","m","p","t","S","u","b","m","i","t">>
E_Stop == <<"S","t","o","p">>
E_SubagentStop == <<"S","u","b","a","g","e","n","t","S","t","o","p">>
E_SessionStart == <<"S","e","s","s","i","o","n","S","t","a","r","t">>

\* path.join(os.homedir(), '.claude', 'hooks') for a home directory /u
HOOKS_DIR == <<"/","u","/",".","c","l","a","u","d","e","/","h","o","o","k","s">>
GuardianHookJs == <<"g","u","a","r","d","i","a","n","-","h","o","o","k",".","j","s">>
SessionStartHookJs == <<"s","e","s","s","i","o","n","-","s","t","a","r","t","-","h","o","o","k",".","j","s">>
\* the matchers of the registered entries
AnyTool == <<".","*">>
ScannedTools == <<"W","r","i","t","e","|","E","d","i","t","|","M","u","l","t","i","E","d","i","t","|","B","a","s","h","|","T","a","s","k">>
SessionMatchers == << <<"s","t","a","r","t","u","p">>, <<"r","e","s","u","m","e">>, <<"c","l","e","a","r">> >>

\* path.join(dir, name)
PathJoin(dir, name) == dir \o <<"/">> \o name

\* String.prototype.includes
Includes(text, part) ==
  \E i \in 0..(Len(text) - Len(part)) : SubSeq(text, i + 1, i + Len(part)) = part

\* obj[key] = val on an object: an existing property keeps its place, a new
\* one goes last
SetProperty(obj, key, val) ==
  IF \E i \in 1..Len(obj.items) : obj.items[i].k = key
  THEN Obj([i \in 1..Len(obj.items) |->
              IF obj.items[i].k = key THEN KV(key, val) ELSE obj.items[i]])
  ELSE Obj(Append(obj.items, KV(key, val)))

\* v[0] of an array
First(v) == IF IsArray(v) /\ v.items # <<>> THEN v.items[1] ELSE Undefined

\* { matcher, hooks: [{ type: 'command', command, timeout }] }
HookConfig(matcher, command, timeout) ==
  Obj(<< KV(K_matcher, Str(matcher)),
         KV(K_hooks, Arr(<< Obj(<< KV(K_type, Str(K_command)),
                                   KV(K_command, Str(command)),
                                   KV(K_timeout, Num(timeout)) >>) >>)) >>)

\* the outcome of a script that died of an exception
Raised == [t |-> "raised", s |-> <<>>, n |-> 0, items |-> <<>>]

\* the filter callback of update-settings.js: h is kept unless the command
\* of its first hook includes `name`
KeepsByFirstHook(h, name) ==
  LET hs  == Get(h, K_hooks)
      cmd == Get(First(hs), K_command)
  IN  \/ ~ Truthy(hs)
      \/ ~ Truthy(First(hs))
      \/ ~ Truthy(cmd)
      \/ ~ Includes(cmd.s, name)

\* the callback throws: h is null, or the command is truthy and has no
\* includes method
KeepsByFirstHookThrows(h, name) ==
  \/ GetThrows(h)
  \/ LET hs  == Get(h, K_hooks)
         cmd == Get(First(hs), K_command)
     IN  Truthy(hs) /\ Truthy(First(hs)) /\ Truthy(cmd) /\ cmd.t # "string"

\* h.command && h.command.includes(name) is truthy
HookMatches(h, name) ==
  /\ ~ GetThrows(h)
  /\ Truthy(Get(h, K_command))
  /\ Get(h, K_command).t = "string"
  /\ Includes(Get(h, K_command).s, name)

\* h.command && h.command.includes(name) throws: h is null, or the command
\* is truthy and has no includes method
HookThrows(h) ==
  \/ GetThrows(h)
  \/ Truthy(Get(h, K_command)) /\ Get(h, K_command).t # "string"

\* the filter callback of configure-hooks.js: config is kept unless hooks is
\* an array and the command of some hook includes `name`
KeepsByAnyHook(config, name) ==
  LET hs == Get(config, K_hooks) IN
  \/ ~ Truthy(hs)
  \/ ~ IsArray(hs)
  \/ ~ \E i \in 1..Len(hs.items) : HookMatches(hs.items[i], name)

\* the callback throws: config is null, or some() meets a hook that throws
\* before one that matches
KeepsByAnyHookThrows(config, name) ==
  \/ GetThrows(config)
  \/ LET hs == Get(config, K_hooks) IN
     /\ Truthy(hs)
     /\ IsArray(hs)
     /\ \E i \in 1..Len(hs.items) :
          /\ HookThrows(hs.items[i])
          /\ \A j \in 1..(i - 1) : ~ HookMatches(hs.items[j], name)

\* if (!settings.hooks[event]) settings.hooks[event] = [];
\* settings.hooks[event] = settings.hooks[event].filter(keeps); then one push
\* per added entry.  byAny: the callback of configure-hooks.js.
RegisterIn(settings, event, name, byAny, added) ==
  IF settings = Raised THEN Raised
  ELSE
    LET hooks == Get(settings, K_hooks)
        list  == IF Truthy(Get(hooks, event)) THEN Get(hooks, event) ELSE Arr(<<>>)
        keeps(h) == IF byAny THEN KeepsByAnyHook(h, name) ELSE KeepsByFirstHook(h, name)
        throws(h) == IF byAny THEN KeepsByAnyHookThrows(h, name)
                     ELSE KeepsByFirstHookThrows(h, name)
    IN
    IF ~ IsArray(list) \/ \E i \in 1..Len(list.items) : throws(list.items[i])
    THEN Raised
    ELSE SetProperty(settings, K_hooks,
           SetProperty(hooks, event, Arr(SelectSeq(list.items, keeps) \o added)))

\* the same, with the settings evaluated once
Register(settings, event, name, byAny, added) ==
  CHOOSE r \in { RegisterIn(v, event, name, byAny, added) : v \in {settings} } : TRUE

\* if (!settings.hooks) settings.hooks = {};
InitHooks(settings) ==
  CHOOSE r \in { IF GetThrows(v) THEN Raised
                 ELSE IF Truthy(Get(v, K_hooks)) THEN v
                 ELSE SetProperty(v, K_hooks, Obj(<<>>)) : v \in {settings} } : TRUE

\* the three session-start entries, one per matcher
SessionEntries ==
  [i \in 1..Len(SessionMatchers) |->
     HookConfig(SessionMatchers[i], PathJoin(HOOKS_DIR, SessionStartHookJs), 10)]

\* updateSettings() of update-settings.js from the parsed settings on: the
\* settings it writes, or Raised
UpdateSettingsValue(settings) ==
  LET guardianEntry == HookConfig(AnyTool, PathJoin(HOOKS_DIR, GuardianHookJs), 30)
      s1 == InitHooks(settings)
      s2 == Register(s1, E_PreToolUse, GuardianHookJs, FALSE, <<guardianEntry>>)
      s3 == Register(s2, E_Stop, GuardianHookJs, FALSE, <<guardianEntry>>)
  IN  Register(s3, E_SessionStart, SessionStartHookJs, FALSE, SessionEntries)

\* configureHook(eventName, matcher, description) of configure-hooks.js
ConfigureHook(settings, eventName, matcher) ==
  Register(settings, eventName, <<"g","u","a","r","d","i","a","n","-","h","o","o","k">>, TRUE,
           <<HookConfig(matcher, PathJoin(HOOKS_DIR, GuardianHookJs), 60)>>)

\* configure-hooks.js from the parsed settings on, GUARDIAN_DEBUG not set
ConfigureHooksValue(settings) ==
  LET s1 == InitHooks(settings)
      s2 == ConfigureHook(s1, E_PreToolUse, ScannedTools)
      s3 == ConfigureHook(s2, E_UserPromptSubmit, AnyTool)
      s4 == ConfigureHook(s3, E_Stop, AnyTool)
      s5 == ConfigureHook(s4, E_SubagentStop, AnyTool)
  IN  Register(s5, E_SessionStart, <<"s","e","s","s","i","o","n","-","s","t","a","r","t","-","h","o","o","k">>, TRUE, SessionEntries)

\* a hook of another tool and entries that hold it
ForeignHook == Obj(<<KV(K_type, Str(K_command)), KV(K_command, Str(<<"/","b","i","n","/","l","i","n","t">>)), KV(K_timeout, Num(5))>>)
ForeignEntry(matcher) == Obj(<<KV(K_matcher, Str(matcher)), KV(K_hooks, Arr(<<ForeignHook>>))>>)

\* settings with hooks of other tools only
Stg_Foreign ==
  Obj(<< KV(<<"m","o","d","e","l">>, Str(<<"o","p","u","s">>)),
         KV(K_hooks, Obj(<< KV(E_PreToolUse, Arr(<<ForeignEntry(S_Bash), ForeignEntry(S_Edit)>>)),
                            KV(E_Stop, Arr(<<ForeignEntry(AnyTool)>>)) >>)) >>)
\* settings with an earlier guardian entry between two foreign ones
Stg_Stale ==
  Obj(<< KV(K_hooks, Obj(<< KV(E_PreToolUse,
           Arr(<< ForeignEntry(S_Bash),
                  HookConfig(S_Write, PathJoin(HOOKS_DIR, GuardianHookJs), 60),
                  ForeignEntry(S_Edit) >>)) >>)) >>)
\* settings with an entry whose second hook is the guardian hook
Stg_Second ==
  Obj(<< KV(K_hooks, Obj(<< KV(E_PreToolUse,
           Arr(<< Obj(<< KV(K_matcher, Str(S_Write)),
                         KV(K_hooks, Arr(<< ForeignHook,
                                            First(Get(HookConfig(S_Write,
                                              PathJoin(HOOKS_DIR, GuardianHookJs), 60),
                                              K_hooks)) >>)) >>) >>)) >>)) >>)
\* settings whose PreToolUse list holds null
Stg_NullEntry == Obj(<< KV(K_hooks, Obj(<< KV(E_PreToolUse, Arr(<<Null>>)) >>)) >>)

\* the settings.json contents the installers may find
InitialSettings == { Obj(<<>>), Stg_Foreign, Stg_Stale, Stg_Second, Stg_NullEntry, Null }

RECURSIVE InstallerClosure(_)
\* every settings value the installers can write, starting from S
InstallerClosure(S) ==
  CHOOSE R \in { IF T \subseteq V THEN V ELSE InstallerClosure(V \cup T) :
                   V \in {S},
                   T \in { ({ UpdateSettingsValue(v) : v \in S }
                              \cup { ConfigureHooksValue(v) : v \in S }) \ {Raised} } } : TRUE

SettingsValues == InstallerClosure(InitialSettings)

\* no settings.json
NoSettings == [exists |-> FALSE, text |-> <<>>]

\* ~/.claude/settings.json before the installers run: absent, not JSON, or
\* the two-space indented form of a settings value
SettingsFiles ==
  { NoSettings, [exists |-> TRUE, text |-> NotJson] }
    \cup { [exists |-> TRUE, text |-> Stringify(v, 2, 0)] : v \in InitialSettings }

\* ------------------------------------------------------------------------
\* JSON.parse
\* ------------------------------------------------------------------------

WhiteSpace == {" ", "\n", "\t"}

RECURSIVE TrimStart(_)
TrimStart(text) ==
  IF text # <<>> /\ Head(text) \in WhiteSpace THEN TrimStart(Tail(text)) ELSE text

RECURSIVE TrimEnd(_)
TrimEnd(text) ==
  IF text # <<>> /\ text[Len(text)] \in WhiteSpace
  THEN TrimEnd(SubSeq(text, 1, Len(text) - 1))
  ELSE text

\* String.prototype.trim
Trim(text) == TrimEnd(TrimStart(text))

\* the values whose JSON text the model can meet
JsonValues ==
  HookEvents \cup HookEventsV1 \cup MixedEvents \cup SessionEvents \cup GuardianConfigs \cup {Cfg_Valid} \cup SettingsValues

\* every JSON text of those values, compact or indented, with its value
JsonTexts ==
  { [text |-> Stringify(v, gap, 0), value |-> v] : v \in JsonValues, gap \in {0, 2} }

\* JSON.parse(text) succeeds: the text, white space around it aside, is the
\* serialisation of a value
ParseOk(text) ==
  LET trimmed == Trim(text) IN \E e \in JsonTexts : e.text = trimmed

\* JSON.parse(text) when it succeeds
Parse(text) ==
  LET trimmed == Trim(text) IN (CHOOSE e \in JsonTexts : e.text = trimmed).value

\* no exit yet
NoExit == -1
\* process.exit(0): the action is allowed
ExitAllow == 0
\* process.exit(2): the action is blocked
ExitBlock == 2
\* the exit code of a process that dies of an uncaught exception
ExitUncaught == 1
\* the delay of the hook's timer, in milliseconds
TimeoutMs == 30000
\* the step by which the model lets time pass
TickMs == 10000

\* no scanContent call yet
NoResults ==
  [ status |-> "none", secrets_found |-> <<>>, recommendations |-> <<>>,
    blocked |-> FALSE ]

\* no installer has run, no hook was launched
NoHost == [script |-> "none", exitCode |-> NoExit, timeout |-> 0]

\* the session-start hook has nothing to scan
NoWorld == [env |-> <<>>, file |-> [exists |-> FALSE, text |-> <<>>], ignored |-> FALSE]

NoFirst == [content |-> Undefined, results |-> NoResults, between |-> FALSE]

\* ------------------------------------------------------------------------
\* Diagnostics written with console.error
\* ------------------------------------------------------------------------

Diagnostic(error, details, recommendations) ==
  [error |-> error, details |-> details, recommendations |-> recommendations]

ConfigurationError  == Diagnostic("Configuration error", <<>>, <<>>)
HookProcessingError == Diagnostic("Hook processing error", <<>>, <<>>)
InputError          == Diagnostic("Input error", <<>>, <<>>)
HookTimeoutError    == Diagnostic("Hook timeout", <<>>, <<>>)
\* what the runtime prints when an exception reaches the top of the stack
UncaughtException   == Diagnostic("Uncaught TypeError", <<>>, <<>>)

\* the errorMessage of a blocked scan: one detail line per finding
SecurityAlert(result) ==
  Diagnostic("SECURITY ALERT: Secrets Detected",
             [i \in 1..Len(result.secrets_found) |->
                [ type  |-> result.secrets_found[i].type,
                  match |-> result.secrets_found[i].match,
                  line  |-> result.secrets_found[i].line ]],
             result.recommendations)

\* ------------------------------------------------------------------------
\* new SecretsGuardian()
\* ------------------------------------------------------------------------

\* this.compilePatterns(agentConfig.patterns) throws
ConstructorThrows(config) ==
  \/ GetThrows(config)
  \/ CompileThrows(Get(config, K_patterns))

\* this.patterns of a constructed guardian
ConstructorPatterns(config) == CompilePatterns(Get(config, K_patterns))

\* ------------------------------------------------------------------------
\* The built-in patterns of SecretsScanner.loadPatterns (session-start-hook.js)
\* ------------------------------------------------------------------------

\* [0-9A-Z]
DigitOrUpper ==
  { Digits09[i] : i \in 1..Len(Digits09) } \cup { UpperCase[i] : i \in 1..Len(UpperCase) }

\* the first built-in pattern, /AKIA[0-9A-Z]{16}/gi
DefaultAwsAccessKeyId ==
  [ atoms |-> << Atom({"A"}, 1, 1), Atom({"K"}, 1, 1), Atom({"I"}, 1, 1), Atom({"A"}, 1, 1),
                 Atom(DigitOrUpper, 16, 16) >>,
    lastIndex |-> 0 ]

\* ------------------------------------------------------------------------
\* processHookInput(input)
\* ------------------------------------------------------------------------

Outcome(g, reg, c, res, code, err) ==
  [ guardian |-> g, patterns |-> reg, content |-> c, results |-> res,
    exitCode |-> code, stderr |-> err ]

\* a decision that tests result.secrets_found, an array and so always truthy
DecideTruthyArray(registry, scanned) ==
  LET result == ScanContent(registry, scanned) IN
  Outcome("ready", RegistryAfterScan(registry), scanned, result,
          ExitBlock, <<SecurityAlert(result)>>)

\* the decision after the scan: a blocked result is reported and exits 2,
\* a safe one exits 0
Decide(registry, scanned) ==
  LET result == ScanContent(registry, scanned) IN
  IF result.blocked
  THEN Outcome("ready", RegistryAfterScan(registry), scanned, result,
               ExitBlock, <<SecurityAlert(result)>>)
  ELSE Outcome("ready", RegistryAfterScan(registry), scanned, result,
               ExitAllow, <<>>)

\* a catch block that fails closed
CaughtBlocks(registry) ==
  Outcome("ready", registry, Undefined, NoResults, ExitBlock, <<HookProcessingError>>)

\* the catch block: report, exit 0
Caught(registry) ==
  Outcome("ready", registry, Undefined, NoResults, ExitAllow, <<HookProcessingError>>)

\* processHookInput(text) with the module's agentConfig being `config`.  The
\* guardian is constructed before the try block, so a throwing constructor
\* is not caught.
ProcessHookInput(config, text) ==
  IF ConstructorThrows(config)
  THEN Outcome("threw", <<>>, Undefined, NoResults, ExitUncaught, <<UncaughtException>>)
  ELSE
    LET registry == ConstructorPatterns(config) IN
    IF ~ ParseOk(text) THEN Caught(registry)
    ELSE
      LET sel == SelectContent(Parse(text)) IN
      CASE sel.kind = "throw" -> Caught(registry)
        [] sel.kind = "exit"  ->
             Outcome("ready", registry, Undefined, NoResults, ExitAllow, <<>>)
        [] sel.kind = "scan"  -> Decide(registry, sel.content)

\* ------------------------------------------------------------------------
\* The hook process (guardian-hook-v2.js run as a script)
\* ------------------------------------------------------------------------

Init ==
  /\ pc = "init"
  /\ configFile \in ConfigFiles
  /\ stdin \in StdinTexts
  /\ agentConfig = Undefined
  /\ input = <<>>
  /\ elapsed = 0
  /\ exitCode = NoExit
  /\ stderr = <<>>
  /\ guardian = "none"
  /\ thisPatterns = <<>>
  /\ lastContent = Undefined
  /\ lastResults = NoResults
  /\ first = NoFirst
  /\ via = "none"
  /\ settingsFile = NoSettings
  /\ host = NoHost
  /\ world = NoWorld
  /\ stdout = <<>>
  /\ variant = "v2"

\* process.exit(code) after writing err to the error stream
Exit(handler, code, err) ==
  /\ pc' = "exited"
  /\ via' = handler
  /\ exitCode' = code
  /\ stderr' = stderr \o err

\* the module's top level: load the configuration, exit 0 when that fails,
\* otherwise main(): register the stdin handlers and arm the timer
Start ==
  /\ pc = "init"
  /\ IF configFile.exists /\ ParseOk(configFile.text)
     THEN /\ agentConfig' = Parse(configFile.text)
          /\ pc' = "reading"
          /\ UNCHANGED <<exitCode, stderr, via>>
     ELSE /\ Exit("config", ExitAllow, <<ConfigurationError>>)
          /\ UNCHANGED agentConfig
  /\ UNCHANGED <<configFile, settingsFile, host, world, stdout, stdin, input, elapsed, guardian, thisPatterns, lastContent,
                 lastResults, first, variant>>

\* the sizes of the chunk in which the next part of the text arrives: all of
\* it, or its first half
ChunkSizes(text) == { Len(text), (Len(text) + 1) \div 2 }

\* stdin 'data': input += chunk
Data ==
  /\ pc = "reading"
  /\ stdin # <<>>
  /\ \E k \in ChunkSizes(stdin) :
       /\ input' = input \o SubSeq(stdin, 1, k)
       /\ stdin' = SubSeq(stdin, k + 1, Len(stdin))
  /\ UNCHANGED <<pc, configFile, settingsFile, host, world, stdout, agentConfig, elapsed, exitCode, stderr, guardian,
                 thisPatterns, lastContent, lastResults, first, via, variant>>

\* an 'end' handler without the test of input.trim()
EndAlwaysProcesses ==
  /\ pc = "reading"
  /\ \E out \in {ProcessHookInput(agentConfig, input)} :
       /\ Exit("end", out.exitCode, out.stderr)
       /\ guardian' = out.guardian
       /\ thisPatterns' = out.patterns
       /\ lastContent' = out.content
       /\ lastResults' = out.results
       /\ first' = IF out.results = NoResults THEN first
                   ELSE [content |-> out.content, results |-> out.results,
                         between |-> FALSE]
  /\ UNCHANGED <<configFile, settingsFile, host, world, stdout, agentConfig, stdin, input, elapsed, variant>>

\* stdin 'end' (the host may close the stream before it has written
\* everything): blank input exits 0, anything else goes to processHookInput,
\* every path of which ends the process, so the second 'end' handler
\* (clearTimeout) never runs
End ==
  /\ pc = "reading"
  /\ IF Trim(input) = <<>>
     THEN /\ Exit("end", ExitAllow, <<>>)
          /\ UNCHANGED <<guardian, thisPatterns, lastContent, lastResults, first>>
     ELSE \E out \in {ProcessHookInput(agentConfig, input)} :
          /\ Exit("end", out.exitCode, out.stderr)
          /\ guardian' = out.guardian
          /\ thisPatterns' = out.patterns
          /\ lastContent' = out.content
          /\ lastResults' = out.results
          /\ first' = IF out.results = NoResults THEN first
                      ELSE [content |-> out.content, results |-> out.results,
                            between |-> FALSE]
  /\ UNCHANGED <<configFile, settingsFile, host, world, stdout, agentConfig, stdin, input, elapsed, variant>>

\* stdin 'error'
StdinError ==
  /\ pc = "reading"
  /\ Exit("error", ExitAllow, <<InputError>>)
  /\ UNCHANGED <<configFile, settingsFile, host, world, stdout, agentConfig, stdin, input, elapsed, guardian, thisPatterns,
                 lastContent, lastResults, first, variant>>

\* time passes while the process waits for events
Tick ==
  /\ pc = "reading"
  /\ elapsed < TimeoutMs
  /\ elapsed' = IF elapsed + TickMs > TimeoutMs THEN TimeoutMs ELSE elapsed + TickMs
  /\ UNCHANGED <<pc, configFile, settingsFile, host, world, stdout, agentConfig, stdin, input, exitCode, stderr, guardian,
                 thisPatterns, lastContent, lastResults, first, via, variant>>

\* a timer callback that still runs after another handler has ended the run
HookTimeoutAfterExit ==
  /\ pc \in {"reading", "exited"}
  /\ via # "timeout"
  /\ elapsed >= TimeoutMs
  /\ Exit("timeout", ExitAllow, <<HookTimeoutError>>)
  /\ UNCHANGED <<configFile, settingsFile, host, world, stdout, agentConfig, stdin, input, elapsed, guardian, thisPatterns,
                 lastContent, lastResults, first, variant>>

\* a timer that the first chunk of input clears
HookTimeoutUnlessData ==
  /\ pc = "reading"
  /\ elapsed >= TimeoutMs
  /\ input = <<>>
  /\ Exit("timeout", ExitAllow, <<HookTimeoutError>>)
  /\ UNCHANGED <<configFile, settingsFile, host, world, stdout, agentConfig, stdin, input, elapsed, guardian, thisPatterns,
                 lastContent, lastResults, first, variant>>

\* the callback of setTimeout(..., 30000)
HookTimeout ==
  /\ pc = "reading"
  /\ elapsed >= TimeoutMs
  /\ Exit("timeout", ExitAllow, <<HookTimeoutError>>)
  /\ UNCHANGED <<configFile, settingsFile, host, world, stdout, agentConfig, stdin, input, elapsed, guardian, thisPatterns,
                 lastContent, lastResults, first, variant>>

Next ==
  \/ Start
  \/ Data
  \/ End
  \/ StdinError
  \/ Tick
  \/ HookTimeout

Spec == Init /\ [][Next]_vars

\* the hook under the scheduling of the runtime: the top level runs, time
\* passes, and a timer that is due fires.  Nothing obliges the host to write
\* to the hook's standard input or to close it.
FairSpec ==
  Spec /\ WF_vars(Start) /\ WF_vars(Tick) /\ WF_vars(HookTimeout)

\* ------------------------------------------------------------------------
\* The hook process of guardian-hook.js run as a script
\* ------------------------------------------------------------------------

\* process.exit(1) of guardian-hook.js: the action is blocked
ExitBlockV1 == 1

\* the diagnostic of a blocked scan: one detail line `type: match` per
\* finding, and the recommendations
SecurityViolation(result) ==
  Diagnostic("Security violation: Secrets detected",
             [i \in 1..Len(result.secrets_found) |->
                [ type  |-> result.secrets_found[i].type,
                  match |-> result.secrets_found[i].match ]],
             result.recommendations)

\* what the host writes to the standard input of guardian-hook.js
StdinTextsV1 ==
  { Stringify(e, 0, 0) \o <<"\n">> :
      e \in HookEventsV1
             \cup { ToolEvent(S_Write, Obj(<<KV(K_content, T_secret)>>)), Obj(<<>>), Null } }
    \cup { NotJson, <<>> }

\* the switch on toolName: the content to scan, or a TypeError
SelectToolV1(toolName, toolInput) ==
  LET new_string == Get(toolInput, K_new_string)
      edits      == Get(toolInput, K_edits)
  IN
  CASE toolName = Str(S_Write) ->
         IF GetThrows(toolInput) THEN Thrown("tool")
         ELSE ToScan("tool", Or(Get(toolInput, K_content), Str(<<>>)))
    [] toolName \in {Str(S_Edit), Str(S_MultiEdit)} ->
         IF GetThrows(toolInput) THEN Thrown("tool")
         ELSE IF Truthy(new_string) THEN ToScan("tool", new_string)
         ELSE IF ~ Truthy(edits) THEN ToScan("tool", Str(<<>>))
         ELSE IF ~ IsArray(edits) \/ \E i \in 1..Len(edits.items) : GetThrows(edits.items[i])
         THEN Thrown("tool")
         ELSE ToScan("tool",
                Str(Join([i \in 1..Len(edits.items) |->
                            ToStringJS(Or(Get(edits.items[i], K_new_string), Str(<<>>)))],
                         <<"\n">>)))
    [] toolName = Str(S_Bash) ->
         IF GetThrows(toolInput) THEN Thrown("tool")
         ELSE ToScan("tool", Or(Get(toolInput, K_command), Str(<<>>)))
    [] OTHER ->
         \* JSON.stringify(undefined) is undefined
         ToScan("tool", IF toolInput = Undefined THEN Undefined
                        ELSE Str(Stringify(toolInput, 0, 0)))

\* processClaudeHookInput(text) with the module's agentConfig being `config`:
\* the guardian is constructed before the try block; a blocked result is
\* reported and exits 1, a safe one exits 0 quietly, an exception inside the
\* try block is reported and exits 0
ProcessClaudeHookInput(config, text) ==
  IF ConstructorThrows(config)
  THEN Outcome("threw", <<>>, Undefined, NoResults, ExitUncaught, <<UncaughtException>>)
  ELSE
    LET registry == ConstructorPatterns(config)
        \* the catch block: report 'Hook error', exit 0
        caught   == Outcome("ready", registry, Undefined, NoResults, ExitAllow,
                            <<Diagnostic("Hook error", <<>>, <<>>)>>)
    IN
    IF ~ ParseOk(text) \/ GetThrows(Parse(text)) THEN caught
    ELSE
      LET data   == Parse(text)
          sel    == SelectToolV1(Get(data, K_toolName), Get(data, K_toolInput))
          result == ScanContent(registry, sel.content)
      IN
      IF sel.kind = "throw" THEN caught
      ELSE IF result.blocked
      THEN Outcome("ready", RegistryAfterScan(registry), sel.content, result,
                   ExitBlockV1, <<SecurityViolation(result)>>)
      ELSE Outcome("ready", RegistryAfterScan(registry), sel.content, result,
                   ExitAllow, <<>>)

InitV1 ==
  /\ pc = "init"
  /\ configFile \in ConfigFiles \cup {[exists |-> TRUE, text |-> Stringify(Cfg_Valid, 2, 0)]}
  /\ stdin \in StdinTextsV1
  /\ agentConfig = Undefined
  /\ input = <<>>
  /\ elapsed = 0
  /\ exitCode = NoExit
  /\ stderr = <<>>
  /\ guardian = "none"
  /\ thisPatterns = <<>>
  /\ lastContent = Undefined
  /\ lastResults = NoResults
  /\ first = NoFirst
  /\ via = "none"
  /\ settingsFile = NoSettings
  /\ host = NoHost
  /\ world = NoWorld
  /\ stdout = <<>>
  /\ variant = "v1"

\* the module's top level: the configuration is read and parsed outside any
\* try block, so a missing or malformed file ends the process with an
\* uncaught exception; otherwise main() registers the handlers and arms the
\* timer
StartV1 ==
  /\ pc = "init"
  /\ IF configFile.exists /\ ParseOk(configFile.text)
     THEN /\ agentConfig' = Parse(configFile.text)
          /\ pc' = "reading"
          /\ UNCHANGED <<exitCode, stderr, via>>
     ELSE /\ Exit("config", ExitUncaught, <<UncaughtException>>)
          /\ UNCHANGED agentConfig
  /\ UNCHANGED <<configFile, settingsFile, host, world, stdout, stdin, input, elapsed, guardian, thisPatterns, lastContent,
                 lastResults, first, variant>>

\* stdin 'end': processClaudeHookInput(input), blank input included
EndV1 ==
  /\ pc = "reading"
  /\ \E out \in {ProcessClaudeHookInput(agentConfig, input)} :
       /\ Exit("end", out.exitCode, out.stderr)
       /\ guardian' = out.guardian
       /\ thisPatterns' = out.patterns
       /\ lastContent' = out.content
       /\ lastResults' = out.results
       /\ first' = IF out.results = NoResults THEN first
                   ELSE [content |-> out.content, results |-> out.results,
                         between |-> FALSE]
  /\ UNCHANGED <<configFile, settingsFile, host, world, stdout, agentConfig, stdin, input, elapsed, variant>>

\* stdin 'error': main registers no listener, so the event is thrown
StdinErrorV1 ==
  /\ pc = "reading"
  /\ Exit("error", ExitUncaught, <<UncaughtException>>)
  /\ UNCHANGED <<configFile, settingsFile, host, world, stdout, agentConfig, stdin, input, elapsed, guardian, thisPatterns,
                 lastContent, lastResults, first, variant>>

\* the 'data' listener and the timer are those of guardian-hook-v2.js
NextV1 ==
  \/ StartV1
  \/ Data
  \/ EndV1
  \/ StdinErrorV1
  \/ Tick
  \/ HookTimeout

SpecV1 == InitV1 /\ [][NextV1]_vars

\* ------------------------------------------------------------------------
\* processClaudeHookInput of session-start-hook-v2.js, and the two
\* processing functions applied to one event
\* ------------------------------------------------------------------------

\* if (data.messages) ... else if (data.toolName && data.toolInput) ... else
\* JSON.stringify(data); data.messages.filter throws on a value that has no
\* filter method
SelectContentMessagesFirst(data) ==
  IF GetThrows(data) THEN Thrown("unknown")
  ELSE IF Truthy(Get(data, K_messages))
  THEN IF IsArray(Get(data, K_messages)) THEN SelectMessages(Get(data, K_messages))
       ELSE Thrown("Stop")
  ELSE IF Truthy(Get(data, K_toolName)) /\ Truthy(Get(data, K_toolInput))
  THEN SelectToolV1(Get(data, K_toolName), Get(data, K_toolInput))
  ELSE ToScan("Unknown", Str(Stringify(data, 0, 0)))

\* processClaudeHookInput(text) of session-start-hook-v2.js with the
\* module's agentConfig being `config`
ProcessClaudeHookInputMessagesFirst(config, text) ==
  IF ConstructorThrows(config)
  THEN Outcome("threw", <<>>, Undefined, NoResults, ExitUncaught, <<UncaughtException>>)
  ELSE
    LET registry == ConstructorPatterns(config)
        caught   == Outcome("ready", registry, Undefined, NoResults, ExitAllow,
                            <<Diagnostic("Hook error", <<>>, <<>>)>>)
    IN
    IF ~ ParseOk(text) THEN caught
    ELSE
      LET sel    == SelectContentMessagesFirst(Parse(text))
          result == ScanContent(registry, sel.content)
      IN
      IF sel.kind = "throw" THEN caught
      ELSE IF result.blocked
      THEN Outcome("ready", RegistryAfterScan(registry), sel.content, result,
                   ExitBlockV1, <<SecurityViolation(result)>>)
      ELSE Outcome("ready", RegistryAfterScan(registry), sel.content, result,
                   ExitAllow, <<>>)

\* the configurations the two functions are applied under
DispatchConfigs == { Cfg_Good, Cfg_Overlap, Cfg_Empty, Cfg_Valid, Cfg_AllBad }

\* one event text is handed to processHookInput of guardian-hook-v2.js
\* (variant "v2") or to processClaudeHookInput of session-start-hook-v2.js
\* (variant "v1": its class is that of guardian-hook.js)
InitDispatch ==
  /\ pc = "dispatch"
  /\ configFile = [exists |-> FALSE, text |-> <<>>]
  /\ stdin = <<>>
  /\ agentConfig \in DispatchConfigs
  /\ input \in { Stringify(e, 0, 0) : e \in MixedEvents }
  /\ elapsed = 0
  /\ exitCode = NoExit
  /\ stderr = <<>>
  /\ guardian = "none"
  /\ thisPatterns = <<>>
  /\ lastContent = Undefined
  /\ lastResults = NoResults
  /\ first = NoFirst
  /\ via = "none"
  /\ settingsFile = NoSettings
  /\ host = NoHost
  /\ world = NoWorld
  /\ stdout = <<>>
  /\ variant \in {"v2", "v1"}

\* the outcome of a processing function becomes the state
Dispatched(out) ==
  /\ Exit("end", out.exitCode, out.stderr)
  /\ guardian' = out.guardian
  /\ thisPatterns' = out.patterns
  /\ lastContent' = out.content
  /\ lastResults' = out.results
  /\ UNCHANGED <<configFile, settingsFile, host, world, stdout, agentConfig, stdin, input, elapsed,
                 first, variant>>

DispatchV2 ==
  /\ pc = "dispatch"
  /\ variant = "v2"
  /\ \E out \in {ProcessHookInput(agentConfig, input)} : Dispatched(out)

DispatchMessagesFirst ==
  /\ pc = "dispatch"
  /\ variant = "v1"
  /\ \E out \in {ProcessClaudeHookInputMessagesFirst(agentConfig, input)} : Dispatched(out)

NextDispatch == DispatchV2 \/ DispatchMessagesFirst

SpecDispatch == InitDispatch /\ [][NextDispatch]_vars

\* ------------------------------------------------------------------------
\* The session-start hook (session-start-hook.js run as a script)
\* ------------------------------------------------------------------------

C_aws_credentials == <<"a","w","s","_","c","r","e","d","e","n","t","i","a","l","s">>

\* the fallback patterns of loadPatterns, of which the model keeps the first
DefaultPatterns ==
  << [category |-> C_aws_credentials, patterns |-> <<DefaultAwsAccessKeyId>>] >>

\* SecretsScanner.loadPatterns(): the compiled patterns of
\* secrets-guardian.json; the fallback patterns when the file cannot be
\* read or parsed, or when compiling throws outside the inner try
LoadPatterns(file) ==
  IF ~ file.exists \/ ~ ParseOk(file.text) THEN DefaultPatterns
  ELSE
    LET config == Parse(file.text) IN
    IF GetThrows(config) THEN DefaultPatterns
    ELSE IF CompileThrowsV2(Or(Get(config, K_patterns), Obj(<<>>))) THEN DefaultPatterns
    ELSE CompilePatterns(Or(Get(config, K_patterns), Obj(<<>>)))

RECURSIVE CategoryFindings(_, _, _)
\* for (const pattern of patterns) { pattern.lastIndex = 0; for (const match
\* of [...contentStr.matchAll(pattern)]) findings.push(...) }
CategoryFindings(category, patterns, contentStr) ==
  IF patterns = <<>> THEN <<>>
  ELSE
    LET matches == MatchAll(contentStr, ResetLastIndex(Head(patterns))) IN
    [i \in 1..Len(matches) |->
       [type |-> category, match |-> matches[i].str, position |-> matches[i].index]]
      \o CategoryFindings(category, Tail(patterns), contentStr)

RECURSIVE SessionScanContent(_, _)
\* SecretsScanner.scanContent(content) for a text
SessionScanContent(registry, contentStr) ==
  IF registry = <<>> THEN <<>>
  ELSE CategoryFindings(Head(registry).category, Head(registry).patterns, contentStr)
         \o SessionScanContent(Tail(registry), contentStr)

\* /^[*x]+$/i.test(value)
OnlyStarsOrX(value) ==
  value # <<>> /\ \A i \in 1..Len(value) : value[i] \in {"*", "x", "X"}

\* the length above which the value of a variable counts as a secret
MinSecretLen == 10

\* scanEnvironment() for one of the sensitive variables, whose value is
\* `value` ('' when it is not set)
ScanEnvironment(value) ==
  IF /\ value # <<>>
     /\ ~ Includes(value, <<"$", "{">>)
     /\ ~ Includes(value, <<"$", "(">>)
     /\ Len(value) > MinSecretLen
     /\ ~ OnlyStarsOrX(value)
  THEN << [type |-> "environment",
           preview |-> SubSeq(value, 1, 8) \o <<".", ".", ".">>] >>
  ELSE <<>>

\* scanWorkingDirectory() for a directory that is no git repository and
\* holds at most one file: a file that is not empty and not ignored is read
\* and scanned, and gives a warning when something is found
ScanWorkingDirectory(registry, w) ==
  IF w.file.exists /\ Len(w.file.text) > 0 /\ ~ w.ignored
  THEN LET findings == SessionScanContent(registry, w.file.text) IN
       IF Len(findings) > 0
       THEN << [type |-> "file", secrets |-> Len(findings), findings |-> findings] >>
       ELSE <<>>
  ELSE <<>>

\* the two fallback lines, and the single line of the handlers of main
FallbackMessage == << [kind |-> "active", sessionType |-> "", total |-> 0],
                      [kind |-> "protected", sessionType |-> "", total |-> 0] >>
ActiveMessage == << [kind |-> "active", sessionType |-> "", total |-> 0] >>

\* formatSecurityReport(sessionType, envWarnings, fileWarnings): the minimal
\* message when nothing was found, the warning with the total otherwise
FormatSecurityReport(sessionType, envWarnings, fileWarnings) ==
  LET total == Len(envWarnings)
                 + (IF fileWarnings = <<>> THEN 0 ELSE fileWarnings[1].secrets)
  IN  [kind |-> IF total = 0 THEN "none detected" ELSE "warning",
       sessionType |-> sessionType, total |-> total]

\* a session-start hook that exits 2 when it has found a secret
ProcessSessionStartBlocking(file, w, data, parsed) ==
  IF ~ parsed \/ GetThrows(data)
  THEN [exitCode |-> ExitAllow, stdout |-> FallbackMessage]
  ELSE
    LET source      == Or(Or(Get(data, K_source), Get(data, K_matcher)), Str(S_startup))
        sessionType == IF source = Str(S_resume) THEN "resumed"
                       ELSE IF source = Str(S_clear) THEN "cleared" ELSE "new"
        registry    == LoadPatterns(file)
        report      == FormatSecurityReport(sessionType, ScanEnvironment(w.env),
                                            ScanWorkingDirectory(registry, w))
    IN  [exitCode |-> IF report.total = 0 THEN ExitAllow ELSE ExitBlock,
         stdout |-> <<report>>]

\* processSessionStart(input) for the parsed payload `data` (parsed is FALSE
\* when JSON.parse threw): Object.keys(data) throws on null; the report is
\* printed and the process exits 0; the catch block prints the fallback
\* message and exits 0
ProcessSessionStart(file, w, data, parsed) ==
  IF ~ parsed \/ GetThrows(data)
  THEN [exitCode |-> ExitAllow, stdout |-> FallbackMessage]
  ELSE
    LET source      == Or(Or(Get(data, K_source), Get(data, K_matcher)), Str(S_startup))
        sessionType == IF source = Str(S_resume) THEN "resumed"
                       ELSE IF source = Str(S_clear) THEN "cleared" ELSE "new"
        registry    == LoadPatterns(file)
        report      == FormatSecurityReport(sessionType, ScanEnvironment(w.env),
                                            ScanWorkingDirectory(registry, w))
    IN  [exitCode |-> ExitAllow, stdout |-> <<report>>]

\* a key of the shape of the first fallback pattern, and a text with it
AwsKeyText == <<"A","K","I","A","0","1","2","3","4","5","6","7","8","9","A","B","C","D","E","F">>
EnvValues == { <<>>, <<"s","h","o","r","t">>, AwsKeyText, <<"$","{","A","W","S","_","K","E","Y","_","I","D","}">>, <<"x","x","x","x","x","x","x","x","x","x","x">> }
WorldFiles ==
  { [exists |-> FALSE, text |-> <<>>],
    [exists |-> TRUE, text |-> <<>>],
    [exists |-> TRUE, text |-> T_safe.s],
    [exists |-> TRUE, text |-> T_secret.s],
    [exists |-> TRUE, text |-> <<"k", "=">> \o AwsKeyText] }
Worlds == [env : EnvValues, file : WorldFiles, ignored : BOOLEAN]

SessionStdinTexts ==
  { Stringify(e, 0, 0) \o <<"\n">> : e \in SessionEvents } \cup { NotJson, <<>>, <<" ", "\n">> }

SessionConfigFiles ==
  { [exists |-> FALSE, text |-> <<>>],
    [exists |-> TRUE, text |-> NotJson],
    [exists |-> TRUE, text |-> Stringify(Cfg_Good, 2, 0)],
    [exists |-> TRUE, text |-> Stringify(Cfg_NotList, 2, 0)] }

\* setTimeout(..., 3000)
SessionTimeoutMs == 3000

InitSession ==
  /\ pc = "init"
  /\ configFile \in SessionConfigFiles
  /\ stdin \in SessionStdinTexts
  /\ agentConfig = Undefined
  /\ input = <<>>
  /\ elapsed = 0
  /\ exitCode = NoExit
  /\ stderr = <<>>
  /\ guardian = "none"
  /\ thisPatterns = <<>>
  /\ lastContent = Undefined
  /\ lastResults = NoResults
  /\ first = NoFirst
  /\ via = "none"
  /\ settingsFile = NoSettings
  /\ host = NoHost
  /\ world \in Worlds
  /\ stdout = <<>>
  /\ variant = "v2"

\* console.log(out) and process.exit(code)
SessionExit(handler, code, out) ==
  /\ pc' = "exited"
  /\ via' = handler
  /\ exitCode' = code
  /\ stdout' = stdout \o out
  /\ UNCHANGED <<configFile, settingsFile, host, world, agentConfig, stdin, input, elapsed,
                 stderr, guardian, thisPatterns, lastContent, lastResults, first, variant>>

\* main(): the stdin handlers are registered and the timer is armed
SessionMain ==
  /\ pc = "init"
  /\ pc' = "reading"
  /\ UNCHANGED <<configFile, settingsFile, host, world, stdout, agentConfig, stdin, input,
                 elapsed, exitCode, stderr, guardian, thisPatterns, lastContent,
                 lastResults, first, via, variant>>

\* stdin 'end': the text received, or { source: 'startup' } when it is blank
SessionEnd ==
  /\ pc = "reading"
  /\ \E parsed \in { Trim(input) = <<>> \/ ParseOk(input) } :
     \E data \in { IF Trim(input) = <<>> THEN Obj(<<KV(K_source, Str(S_startup))>>)
                   ELSE IF parsed THEN Parse(input) ELSE Undefined } :
     \E out \in { ProcessSessionStart(configFile, world, data, parsed) } :
       SessionExit("end", out.exitCode, out.stdout)

\* stdin 'error'
SessionStdinError ==
  /\ pc = "reading"
  /\ SessionExit("error", ExitAllow, ActiveMessage)

\* time passes while the process waits for events
SessionTick ==
  /\ pc = "reading"
  /\ elapsed < SessionTimeoutMs
  /\ elapsed' = IF elapsed + TickMs > SessionTimeoutMs THEN SessionTimeoutMs
                ELSE elapsed + TickMs
  /\ UNCHANGED <<pc, configFile, settingsFile, host, world, stdout, agentConfig, stdin, input,
                 exitCode, stderr, guardian, thisPatterns, lastContent, lastResults, first,
                 via, variant>>

\* the callback of setTimeout(..., 3000)
SessionTimeout ==
  /\ pc = "reading"
  /\ elapsed >= SessionTimeoutMs
  /\ SessionExit("timeout", ExitAllow, ActiveMessage)

NextSession ==
  \/ SessionMain
  \/ Data
  \/ SessionEnd
  \/ SessionStdinError
  \/ SessionTick
  \/ SessionTimeout

SpecSession == InitSession /\ [][NextSession]_vars

\* the timer is armed by main and never cleared, and the event loop runs
\* every callback that is due
FairSpecSession ==
  SpecSession /\ WF_vars(SessionMain) /\ WF_vars(SessionTick) /\ WF_vars(SessionTimeout)

\* ------------------------------------------------------------------------
\* The host: the installers register the hook in settings.json, the host
\* launches it under the registered timeout and kills it at the deadline
\* ------------------------------------------------------------------------

InitInstall ==
  /\ pc = "install"
  /\ configFile = [exists |-> FALSE, text |-> <<>>]
  /\ stdin = <<>>
  /\ agentConfig = Undefined
  /\ input = <<>>
  /\ elapsed = 0
  /\ exitCode = NoExit
  /\ stderr = <<>>
  /\ guardian = "none"
  /\ thisPatterns = <<>>
  /\ lastContent = Undefined
  /\ lastResults = NoResults
  /\ first = NoFirst
  /\ via = "none"
  /\ settingsFile \in SettingsFiles
  /\ host = NoHost
  /\ world = NoWorld
  /\ stdout = <<>>
  /\ variant = "v2"

\* the end of an installer run: `out` is written with two-space indentation
\* and the script exits 0, or the script died before writing
Installed(script, out) ==
  /\ IF out = Raised
     THEN /\ host' = [script |-> script, exitCode |-> 1, timeout |-> 0]
          /\ UNCHANGED settingsFile
     ELSE /\ host' = [script |-> script, exitCode |-> 0, timeout |-> 0]
          /\ settingsFile' = [exists |-> TRUE, text |-> Stringify(out, 2, 0)]
  /\ UNCHANGED <<pc, configFile, agentConfig, stdin, input, elapsed, exitCode, stderr,
                 guardian, thisPatterns, lastContent, lastResults, first, via, variant,
                 world, stdout>>

\* node update-settings.js: settings that do not parse end the script with
\* exit 1 before anything is written
UpdateSettings ==
  /\ pc = "install"
  /\ IF settingsFile.exists /\ ~ ParseOk(settingsFile.text)
     THEN Installed("update-settings", Raised)
     ELSE Installed("update-settings",
            UpdateSettingsValue(IF settingsFile.exists THEN Parse(settingsFile.text)
                                ELSE Obj(<<>>)))

\* node configure-hooks.js: settings that do not parse are replaced by {}
ConfigureHooks ==
  /\ pc = "install"
  /\ Installed("configure-hooks",
       ConfigureHooksValue(IF settingsFile.exists /\ ParseOk(settingsFile.text)
                           THEN Parse(settingsFile.text) ELSE Obj(<<>>)))

\* the hooks of every entry of one event's list
HooksOf(settings, event) ==
  LET list == Get(Get(settings, K_hooks), event) IN
  IF ~ IsArray(list) THEN {}
  ELSE UNION { IF IsArray(Get(list.items[i], K_hooks))
               THEN { Get(list.items[i], K_hooks).items[j] :
                        j \in 1..Len(Get(list.items[i], K_hooks).items) }
               ELSE {} : i \in { k \in 1..Len(list.items) : ~ GetThrows(list.items[k]) } }

\* the timeouts, in seconds, under which settings.json registers the guardian hook
GuardianTimeouts(file) ==
  IF ~ (file.exists /\ ParseOk(file.text)) \/ GetThrows(Parse(file.text)) THEN {}
  ELSE { Get(h, K_timeout).n :
           h \in { g \in UNION { HooksOf(Parse(file.text), e) :
                                   e \in {E_PreToolUse, E_UserPromptSubmit, E_Stop, E_SubagentStop} } :
                     HookMatches(g, GuardianHookJs) /\ Get(g, K_timeout).t = "number" } }

\* the host starts the hook for an event, under a registered timeout
Launch ==
  /\ pc = "install"
  /\ \E t \in GuardianTimeouts(settingsFile) : host' = [host EXCEPT !.timeout = t]
  /\ pc' = "init"
  /\ configFile' \in { [exists |-> TRUE, text |-> Stringify(c, 2, 0)] : c \in {Cfg_Good, Cfg_Empty} }
  /\ stdin' \in { Stringify(e, 0, 0) \o <<"\n">> :
                    e \in { ToolEvent(S_Bash, Obj(<<KV(K_command, T_secret)>>)),
                            Obj(<<KV(K_prompt, T_safe)>>) } }
  /\ UNCHANGED <<agentConfig, input, elapsed, exitCode, stderr, guardian, thisPatterns,
                 lastContent, lastResults, first, via, variant, settingsFile,
                 world, stdout>>

\* the host's deadline passes while the hook is still running: the host kills it
HostKill ==
  /\ pc \in {"init", "reading"}
  /\ elapsed >= host.timeout * 1000
  /\ pc' = "exited"
  /\ via' = "host"
  /\ UNCHANGED <<configFile, settingsFile, host, world, stdout, agentConfig, stdin, input, elapsed, exitCode,
                 stderr, guardian, thisPatterns, lastContent, lastResults, first, variant>>

NextInstall ==
  \/ UpdateSettings
  \/ ConfigureHooks
  \/ Launch
  \/ Start
  \/ Data
  \/ End
  \/ StdinError
  \/ Tick
  \/ HookTimeout
  \/ HostKill

SpecInstall == InitInstall /\ [][NextInstall]_vars

\* ------------------------------------------------------------------------
\* A SecretsGuardian instance used as a library (module.exports)
\* ------------------------------------------------------------------------

\* the library before an instance is made, the class taken from file v
InitGuardian ==
  /\ pc = "library"
  /\ configFile = [exists |-> FALSE, text |-> <<>>]
  /\ stdin = <<>>
  /\ agentConfig \in GuardianConfigs
  /\ input = <<>>
  /\ elapsed = 0
  /\ exitCode = NoExit
  /\ stderr = <<>>
  /\ guardian = "none"
  /\ thisPatterns = <<>>
  /\ lastContent = Undefined
  /\ lastResults = NoResults
  /\ first = NoFirst
  /\ via = "none"
  /\ settingsFile = NoSettings
  /\ host = NoHost
  /\ world = NoWorld
  /\ stdout = <<>>
  /\ variant \in {"v2", "v1"}

\* new SecretsGuardian()
Construct ==
  /\ pc = "library"
  /\ guardian = "none"
  /\ IF ConstructorThrows(agentConfig)
     THEN guardian' = "threw" /\ UNCHANGED thisPatterns
     ELSE guardian' = "ready" /\ thisPatterns' = ConstructorPatterns(agentConfig)
  /\ UNCHANGED <<hookVars, agentConfig, lastContent, lastResults, first, variant>>

\* guardian.scanContent(c)
Scan(c) ==
  /\ pc = "library"
  /\ guardian = "ready"
  /\ lastContent' = c
  /\ lastResults' = ScanContent(thisPatterns, c)
  /\ thisPatterns' = RegistryAfterScan(thisPatterns)
  /\ first' = IF first = NoFirst
              THEN [content |-> c, results |-> lastResults', between |-> FALSE]
              ELSE [first EXCEPT !.between = @ \/ c # first.content]
  /\ UNCHANGED <<hookVars, agentConfig, guardian, variant>>

NextGuardian ==
  \/ Construct
  \/ \E c \in GuardianContents : Scan(c)

\* the class SecretsGuardian of guardian-hook-v2.js and of guardian-hook.js
SpecGuardian == InitGuardian /\ [][NextGuardian]_vars
\* ------------------------------------------------------------------------
\* Properties
\* ------------------------------------------------------------------------

\* a scanContent call has returned
Scanned == lastResults # NoResults

\* C1: every ScanResult returned by scanContent has status 'danger' and
\* blocked true exactly when secrets_found is non-empty, status 'safe' and
\* blocked false otherwise; recommendations is non-empty exactly when blocked
\* is true, and it is then the fixed list of four remediation hints.
C1_ResultShape ==
  Scanned =>
    /\ lastResults.status \in {"safe", "danger"}
    /\ lastResults.blocked \in BOOLEAN
    /\ (lastResults.status = "danger" /\ lastResults.blocked)
          <=> lastResults.secrets_found # <<>>
    /\ (lastResults.status = "safe" /\ ~lastResults.blocked)
          <=> lastResults.secrets_found = <<>>
    /\ lastResults.recommendations # <<>> <=> lastResults.blocked
    /\ lastResults.blocked =>
          /\ Len(lastResults.recommendations) = 4
          /\ lastResults.recommendations =
               << "Remove hardcoded secrets from the code",
                  "Use environment variables for sensitive configuration",
                  "Consider using a secrets management service",
                  "Add the file to .gitignore if it contains secrets" >>

\* a scan that returned findings of two categories, and one that returned a
\* single finding
C1_Witness ==
  /\ pc = "library"
  /\ Scanned
  /\ lastResults.blocked
  /\ first.results.blocked
  /\ Len(first.results.secrets_found) = 1
  /\ \E k, l \in DOMAIN lastResults.secrets_found :
        lastResults.secrets_found[k].type # lastResults.secrets_found[l].type

\* a scan ran and returned at least one finding
FindingsPresent == Scanned /\ lastResults.secrets_found # <<>>

\* C2: over every run of the hook the process ends with the block exit code 2
\* exactly when a scan ran and returned a non-empty findings list, and every
\* other end of the process (configuration error, pattern compilation error,
\* payload parse error, stdin error, timeout) is the allow exit code 0.
C2_OnlyFindingsBlock ==
  pc = "exited" =>
    /\ exitCode = ExitBlock <=> FindingsPresent
    /\ ~ FindingsPresent => exitCode = ExitAllow

\* the fields the branch of a known tool reads from tool_input
ExpectedFields(tool_name) ==
  CASE tool_name = Str(S_Write)     -> {K_content, K_file_content}
    [] tool_name = Str(S_Edit)      -> {K_new_string, K_new_content}
    [] tool_name = Str(S_MultiEdit) -> {K_edits}
    [] tool_name = Str(S_Bash)      -> {K_command}
    [] tool_name = Str(S_Task)      -> {K_prompt}
    [] OTHER                        -> {}

\* a tool event whose tool_input is null or has none of the fields its tool
\* is read for
ToolInputUnusable(data) ==
  /\ data.t = "object"
  /\ ExpectedFields(Get(data, K_tool_name)) # {}
  /\ Get(data, K_tool_input) # Undefined
  /\ \/ Get(data, K_tool_input) = Null
     \/ /\ Get(data, K_tool_input).t = "object"
        /\ \A k \in ExpectedFields(Get(data, K_tool_name)) :
             Get(Get(data, K_tool_input), k) = Undefined

\* a payload that cannot be parsed as an event: text that is not JSON, JSON
\* null, a JSON scalar, or a tool event with an unusable tool_input
Unparsable(text) ==
  \/ ~ ParseOk(text)
  \/ /\ ParseOk(text)
     /\ \/ Parse(text).t \in {"null", "string", "number"}
        \/ ToolInputUnusable(Parse(text))

\* C3: for every stdin payload that cannot be parsed as an event (invalid
\* JSON, JSON null or scalar, a tool event whose tool_input is null or lacks
\* the expected fields) the hook writes the 'Hook processing error'
\* diagnostic and exits 0; it never exits with the block code.
C3_ParseErrorAllows ==
  (pc = "exited" /\ via = "end" /\ Trim(input) # <<>> /\ Unparsable(input)) =>
    /\ exitCode = ExitAllow
    /\ stderr = <<HookProcessingError>>

\* the patterns mapping of config maps every category to a list of strings
ListsOfSources(config) ==
  /\ config.t = "object"
  /\ Get(config, K_patterns).t = "object"
  /\ \A i \in 1..Len(Get(config, K_patterns).items) :
       LET sources == Get(config, K_patterns).items[i].v IN
       /\ IsArray(sources)
       /\ \A j \in 1..Len(sources.items) : sources.items[j].t = "string"

\* new RegExp(source, 'gmi') returns
Compiles(source) == NewRegExp(source.s).ok

\* a configuration one source of which does not compile
OneMalformedSource(config) ==
  /\ ListsOfSources(config)
  /\ \E i \in 1..Len(Get(config, K_patterns).items) :
       \E j \in 1..Len(Get(config, K_patterns).items[i].v.items) :
         ~ Compiles(Get(config, K_patterns).items[i].v.items[j])

\* per category, in the order of Object.entries, the sources that compile in
\* the order of their list
ValidSources(config) ==
  LET es == Entries(Get(config, K_patterns))
  IN  [i \in 1..Len(es) |->
         [category |-> es[i].k, sources |-> SelectSeq(es[i].v.items, Compiles)]]

\* C4: constructing a guardian from a configuration in which one source does
\* not compile never throws; the registry holds, per category, every other
\* source compiled and in the order of its list, and a scan reports every
\* match of every source that compiles.
C4_MalformedIsolation ==
  (pc = "library" /\ guardian # "none" /\ OneMalformedSource(agentConfig)) =>
    LET valid == ValidSources(agentConfig) IN
    /\ guardian = "ready"
    /\ Len(thisPatterns) = Len(valid)
    /\ \A i \in 1..Len(valid) :
         /\ thisPatterns[i].category = valid[i].category
         /\ Len(thisPatterns[i].patterns) = Len(valid[i].sources)
         /\ \A j \in 1..Len(valid[i].sources) :
              thisPatterns[i].patterns[j].atoms = NewRegExp(valid[i].sources[j].s).atoms
    /\ Scanned =>
         \A i \in 1..Len(valid) : \A j \in 1..Len(valid[i].sources) :
           LET matches == MatchAllFrom(NewRegExp(valid[i].sources[j].s).atoms,
                                       ContentStr(lastContent), 0)
           IN  \A m \in 1..Len(matches) :
                 \E k \in 1..Len(lastResults.secrets_found) :
                   /\ lastResults.secrets_found[k].type = valid[i].category
                   /\ lastResults.secrets_found[k].position = matches[m].index

\* secrets-guardian.json cannot be read or parsed, or has no usable
\* patterns mapping
ConfigUnusable ==
  \/ ~ configFile.exists
  \/ ~ ParseOk(configFile.text)
  \/ /\ ParseOk(configFile.text)
     /\ \/ GetThrows(Parse(configFile.text))
        \/ Get(Parse(configFile.text), K_patterns).t # "object"
        \/ ~ ListsOfSources(Parse(configFile.text))

\* the host's payload, read or not, holds a match of the built-in access key
\* id pattern
DefaultSecretOnStdin == MatchAll(input \o stdin, DefaultAwsAccessKeyId) # <<>>

\* C5: when the configuration cannot be read or parsed or has no usable
\* patterns mapping, the payload is scanned with the built-in default
\* registry, so a run that is handed an AKIA access key id ends blocked.
C5_DefaultRegistry ==
  ( /\ pc = "exited"
    /\ ConfigUnusable
    /\ DefaultSecretOnStdin
    /\ via = "config" \/ (via = "end" /\ stdin = <<>>) ) =>
  exitCode = ExitBlock

\* no pattern of the registry matches at any position of text
NoPatternMatches(registry, text) ==
  \A i \in 1..Len(registry) : \A j \in 1..Len(registry[i].patterns) :
    \A start \in 0..Len(text) :
      MatchAt(registry[i].patterns[j].atoms, 1, text, start) = -1

\* C6: when the scanned input, normalised to a string, has no substring that
\* matches any compiled pattern of the registry, scanContent returns status
\* 'safe', blocked false, no findings and no recommendations, and the hook
\* exits 0 without a diagnostic.
C6_NoFalseBlock ==
  (Scanned /\ NoPatternMatches(thisPatterns, ContentStr(lastContent))) =>
    /\ lastResults = [ status |-> "safe", secrets_found |-> <<>>,
                       recommendations |-> <<>>, blocked |-> FALSE ]
    /\ pc = "exited" => (exitCode = ExitAllow /\ stderr = <<>>)

\* the hook scanned a non-empty text with a registry that holds a pattern,
\* none of which matches, and has exited
C6_Witness ==
  /\ pc = "exited"
  /\ via = "end"
  /\ Scanned
  /\ ContentStr(lastContent) # <<>>
  /\ \E i \in 1..Len(thisPatterns) : thisPatterns[i].patterns # <<>>
  /\ NoPatternMatches(thisPatterns, ContentStr(lastContent))

RECURSIVE SumSeq(_)
SumSeq(ns) == IF ns = <<>> THEN 0 ELSE Head(ns) + SumSeq(Tail(ns))

\* the number of matches of the patterns of category i of the registry
MatchesOfCategory(registry, i, text) ==
  SumSeq([j \in 1..Len(registry[i].patterns) |->
            Len(MatchAll(text, registry[i].patterns[j]))])

\* C7: the number of findings scanContent returns is the sum, over every
\* (category, pattern) pair of the registry, of the number of left-to-right
\* non-overlapping matches of the pattern in the normalised text, category
\* by category; every match is reported under its category even when
\* another pattern or category matches the same substring.
C7_Additive ==
  Scanned =>
    LET text  == ContentStr(lastContent)
        found == lastResults.secrets_found
    IN
    /\ Len(found) = SumSeq([i \in 1..Len(thisPatterns) |->
                              MatchesOfCategory(thisPatterns, i, text)])
    /\ \A i \in 1..Len(thisPatterns) :
         Cardinality({k \in 1..Len(found) : found[k].type = thisPatterns[i].category})
           = MatchesOfCategory(thisPatterns, i, text)
    /\ \A i \in 1..Len(thisPatterns) : \A j \in 1..Len(thisPatterns[i].patterns) :
         LET matches == MatchAll(text, thisPatterns[i].patterns[j]) IN
         \A m \in 1..Len(matches) :
           \E k \in 1..Len(found) :
             /\ found[k].type = thisPatterns[i].category
             /\ found[k].position = matches[m].index

\* two categories report the same substring at the same position
C7_Witness ==
  /\ Scanned
  /\ \E k, l \in 1..Len(lastResults.secrets_found) :
       /\ lastResults.secrets_found[k].type # lastResults.secrets_found[l].type
       /\ lastResults.secrets_found[k].position = lastResults.secrets_found[l].position
       /\ lastResults.secrets_found[k].match = lastResults.secrets_found[l].match

\* the flattening of a sequence of sequences
Flatten(seqs) == Concat(seqs)

\* category and offset of the findings expected of the registry: categories
\* in registry order, patterns in list order, matches left to right
ExpectedOrder(registry, text) ==
  Flatten([i \in 1..Len(registry) |->
    Flatten([j \in 1..Len(registry[i].patterns) |->
      LET matches == MatchAll(text, registry[i].patterns[j]) IN
      [m \in 1..Len(matches) |->
         [type |-> registry[i].category, position |-> matches[m].index]]])])

\* C8: the findings list is ordered by category in the registry's insertion
\* order, then by pattern position within the category's list, then by
\* strictly increasing match offset within one pattern, whose matches do not
\* overlap.
C8_FindingOrder ==
  Scanned =>
    LET text  == ContentStr(lastContent)
        found == lastResults.secrets_found
    IN
    /\ [k \in 1..Len(found) |-> [type |-> found[k].type, position |-> found[k].position]]
         = ExpectedOrder(thisPatterns, text)
    /\ \A i \in 1..Len(thisPatterns) : \A j \in 1..Len(thisPatterns[i].patterns) :
         LET matches == MatchAll(text, thisPatterns[i].patterns[j]) IN
         \A m \in 1..(Len(matches) - 1) :
           /\ matches[m].index < matches[m + 1].index
           /\ matches[m].index + Len(matches[m].str) <= matches[m + 1].index

\* a finding of a later category at a smaller offset than a finding of an
\* earlier category, and a pattern with two matches
C8_Witness ==
  /\ Scanned
  /\ \E k, l \in 1..Len(lastResults.secrets_found) :
       /\ k < l
       /\ lastResults.secrets_found[k].type # lastResults.secrets_found[l].type
       /\ lastResults.secrets_found[k].position > lastResults.secrets_found[l].position
  /\ \E k \in 1..(Len(lastResults.secrets_found) - 1) :
       /\ lastResults.secrets_found[k].type = lastResults.secrets_found[k + 1].type
       /\ lastResults.secrets_found[k].match = lastResults.secrets_found[k + 1].match
       /\ lastResults.secrets_found[k].position < lastResults.secrets_found[k + 1].position

\* C9: on one SecretsGuardian instance a scanContent call with the input of
\* the first call returns the ScanResult of the first call, whatever was
\* scanned in between; no pattern keeps a match cursor from one call to the
\* next.
C9_Deterministic ==
  /\ (Scanned /\ first # NoFirst /\ lastContent = first.content) =>
       lastResults = first.results
  /\ \A i \in 1..Len(thisPatterns) : \A j \in 1..Len(thisPatterns[i].patterns) :
       thisPatterns[i].patterns[j].lastIndex = 0

\* the input of the first call is scanned again after a different input, and
\* it has findings
C9_Witness ==
  /\ pc = "library"
  /\ first.between
  /\ lastContent = first.content
  /\ Len(lastResults.secrets_found) >= 2

\* C10: a hook that waits for input does not wait forever: unless stdin ends
\* or fails first, the timer fires 30 seconds after the start, and a run the
\* timer ends has written the 'Hook timeout' diagnostic and exits 0, never
\* with the block code.
C10_TimeoutFailOpen ==
  /\ [](via = "timeout" =>
          /\ pc = "exited"
          /\ elapsed = TimeoutMs
          /\ exitCode = ExitAllow
          /\ stderr = <<HookTimeoutError>>
          /\ ~ Scanned)
  /\ [](pc = "reading" => elapsed <= TimeoutMs)
  /\ (pc = "reading" ~> pc = "exited")

\* the timer ended a run whose input had begun to arrive and never ended
C10_Witness ==
  /\ pc = "exited"
  /\ via = "timeout"
  /\ input # <<>>
  /\ stdin # <<>>
  /\ exitCode = ExitAllow

\* C11: in every interleaving of the stdin events with the timer one run of
\* the hook reaches exactly one decision: it ends, and once a handler has set
\* the exit code no other handler changes it or writes after it, so the
\* timer's allow never follows the allow or block of the normal path.
C11_SingleResolution ==
  /\ [][exitCode # NoExit =>
          (exitCode' = exitCode /\ via' = via /\ stderr' = stderr /\ pc' = pc)]_vars
  /\ [](exitCode # NoExit <=> pc = "exited")
  /\ [](via = "timeout" => ~ Scanned)
  /\ <>(pc = "exited")

\* the normal path decided to block at the moment the timer was due
C11_Witness ==
  /\ pc = "exited"
  /\ via = "end"
  /\ exitCode = ExitBlock
  /\ elapsed = TimeoutMs

\* text holds part as a contiguous piece
Contains(text, part) ==
  \E start \in 0..(Len(text) - Len(part)) :
    SubSeq(text, start + 1, start + Len(part)) = part

\* the host closed the stream before it had written the whole payload, and
\* the part the hook received holds the whole of the text that the scan of
\* the complete payload reports findings in
SecretInReceivedPrefix ==
  /\ pc = "exited"
  /\ via = "end"
  /\ stdin # <<>>
  /\ ~ ConstructorThrows(agentConfig)
  /\ ParseOk(input \o stdin)
  /\ LET sel == SelectContent(Parse(input \o stdin)) IN
     /\ sel.kind = "scan"
     /\ sel.content.t = "string"
     /\ sel.content.s # <<>>
     /\ \E k \in 1..Len(ScanContent(ConstructorPatterns(agentConfig),
                                     sel.content).secrets_found) :
          ScanContent(ConstructorPatterns(agentConfig),
                      sel.content).secrets_found[k].match # <<>>
     /\ Contains(input, sel.content.s)

\* C12 as stated: when the host closes the input stream after only a prefix
\* of the payload, the received prefix is scanned, so a secret wholly
\* contained in the prefix ends in the block outcome.
C12_PrefixScanned ==
  SecretInReceivedPrefix => (Scanned /\ exitCode = ExitBlock)

\* C12 as amended: the received prefix is handed to processHookInput at once
\* as the complete input; a prefix that is not a complete JSON text is never
\* scanned and never blocks (a blank one exits 0 silently, any other ends in
\* the processing-error allow once the guardian is constructed); only a
\* prefix that is a complete JSON text is scanned.
C12_PrefixProcessed ==
  (pc = "exited" /\ via = "end" /\ stdin # <<>>) =>
    /\ Scanned => ParseOk(input)
    /\ ~ ParseOk(input) =>
         /\ ~ Scanned
         /\ exitCode # ExitBlock
         /\ Trim(input) = <<>> => (exitCode = ExitAllow /\ stderr = <<>>)
         /\ (Trim(input) # <<>> /\ guardian = "ready") =>
              (exitCode = ExitAllow /\ stderr = <<HookProcessingError>>)

\* a prefix that holds the whole secret was allowed with a processing error
C12_Witness ==
  /\ SecretInReceivedPrefix
  /\ ~ ParseOk(input)
  /\ exitCode = ExitAllow
  /\ stderr = <<HookProcessingError>>

\* the 'end' handler ran processHookInput on input that is a JSON text
ProcessedEvent == pc = "exited" /\ via = "end" /\ ParseOk(input)

\* the shapes of an event
IsToolEvent(data) ==
  Truthy(Get(data, K_tool_name)) /\ Get(data, K_tool_input) # Undefined
IsMessagesEvent(data) ==
  ~ IsToolEvent(data) /\ IsArray(Get(data, K_messages))
IsPromptEvent(data) ==
  ~ IsToolEvent(data) /\ ~ IsMessagesEvent(data) /\ Truthy(Get(data, K_prompt))
IsUnrecognized(data) ==
  ~ IsToolEvent(data) /\ ~ IsMessagesEvent(data) /\ ~ IsPromptEvent(data)

\* some pattern of the registry matches somewhere in text
SomePatternMatches(registry, text) == ~ NoPatternMatches(registry, text)

\* the scan was handed exactly text, and the run ended blocked if a pattern
\* of the registry matches in it and allowed if none does
ScannedExactly(text) ==
  /\ Scanned
  /\ lastContent = Str(text)
  /\ exitCode = (IF SomePatternMatches(thisPatterns, text) THEN ExitBlock ELSE ExitAllow)

\* C13 as stated: every parsed event object that is not a tool-invocation
\* event, a messages event or a user-prompt event has its entire serialized
\* form scanned and is blocked when that holds a secret; none is allowed
\* without a scan.
C13_UnrecognizedScannedAll ==
  (ProcessedEvent /\ guardian = "ready" /\ Parse(input).t = "object"
     /\ IsUnrecognized(Parse(input))) =>
    ScannedExactly(Stringify(Parse(input), 0, 0))

\* C13 as amended: a parsed value that is not a tool-invocation event, a
\* messages event or a user-prompt event is handled by its shape: an event
\* with a truthy notification_type is allowed without a scan; JSON null
\* raises and ends in the processing-error allow; every other object or
\* scalar is never allowed unscanned: the scan is handed its entire compact
\* serialized form and the run blocks exactly when a pattern matches in it.
C13_UnrecognizedByShape ==
  (ProcessedEvent /\ IsUnrecognized(Parse(input))) =>
    LET data == Parse(input) IN
    CASE data = Null ->
           /\ ~ Scanned
           /\ exitCode # ExitBlock
           /\ guardian = "ready" =>
                (exitCode = ExitAllow /\ stderr = <<HookProcessingError>>)
      [] data # Null /\ Truthy(Get(data, K_notification_type)) ->
           /\ ~ Scanned
           /\ exitCode # ExitBlock
           /\ guardian = "ready" => (exitCode = ExitAllow /\ stderr = <<>>)
      [] OTHER ->
           /\ exitCode \in {ExitAllow, ExitBlock} => Scanned
           /\ guardian = "ready" => ScannedExactly(Stringify(data, 0, 0))

\* an object of no known shape was scanned whole and blocked
C13_Witness ==
  /\ ProcessedEvent
  /\ Parse(input).t = "object"
  /\ Parse(input).items # <<>>
  /\ IsUnrecognized(Parse(input))
  /\ ~ Truthy(Get(Parse(input), K_notification_type))
  /\ lastContent = Str(Stringify(Parse(input), 0, 0))
  /\ exitCode = ExitBlock

\* the tools the switch has a case for
KnownTools == { Str(S_Write), Str(S_Edit), Str(S_MultiEdit), Str(S_Bash), Str(S_Task) }

\* a field that holds a text, or is null or absent
TextOrAbsent(v) == v.t \in {"string", "null", "undefined"}

\* the text of such a field, '' when there is none
FieldText(v) == IF v.t = "string" THEN v.s ELSE <<>>

\* the text of the first of two fields that holds a non-empty text
FirstText(a, b) == IF FieldText(a) # <<>> THEN FieldText(a) ELSE FieldText(b)

\* a tool-invocation event of a known tool whose tool_input is an object
\* with text fields and, for MultiEdit, a list of such objects
KnownToolEvent(data) ==
  /\ IsToolEvent(data)
  /\ Get(data, K_tool_name) \in KnownTools
  /\ LET ti == Get(data, K_tool_input) IN
     /\ ti.t = "object"
     /\ \A i \in 1..Len(ti.items) :
          TextOrAbsent(ti.items[i].v) \/ ti.items[i].k = K_edits
     /\ Get(ti, K_edits).t \in {"undefined", "array"}
     /\ \A i \in 1..Len(Get(ti, K_edits).items) :
          LET e == Get(ti, K_edits).items[i] IN
          e.t = "object" /\ \A j \in 1..Len(e.items) : TextOrAbsent(e.items[j].v)

\* the primary text field the claim names for each tool
PrimaryText(data) ==
  LET tool == Get(data, K_tool_name)
      ti   == Get(data, K_tool_input)
  IN  CASE tool = Str(S_Write)     -> FieldText(Get(ti, K_content))
        [] tool = Str(S_Edit)      -> FieldText(Get(ti, K_new_string))
        [] tool = Str(S_MultiEdit) ->
             Join([i \in 1..Len(Get(ti, K_edits).items) |->
                     FieldText(Get(Get(ti, K_edits).items[i], K_new_string))], <<"\n">>)
        [] tool = Str(S_Bash)      -> FieldText(Get(ti, K_command))
        [] tool = Str(S_Task)      -> FieldText(Get(ti, K_prompt))

\* the text the amended claim names: the primary field, its alternate when
\* the primary holds no text, the whole tool_input of a MultiEdit without a
\* list of edits
SelectedText(data) ==
  LET tool == Get(data, K_tool_name)
      ti   == Get(data, K_tool_input)
  IN  CASE tool = Str(S_Write) ->
             FirstText(Get(ti, K_content), Get(ti, K_file_content))
        [] tool = Str(S_Edit) ->
             FirstText(Get(ti, K_new_string), Get(ti, K_new_content))
        [] tool = Str(S_MultiEdit) ->
             IF IsArray(Get(ti, K_edits))
             THEN Join([i \in 1..Len(Get(ti, K_edits).items) |->
                          FirstText(Get(Get(ti, K_edits).items[i], K_new_string),
                                    Get(Get(ti, K_edits).items[i], K_new_content))],
                       <<"\n">>)
             ELSE Stringify(ti, 0, 0)
        [] tool = Str(S_Bash)  -> FieldText(Get(ti, K_command))
        [] tool = Str(S_Task)  -> FieldText(Get(ti, K_prompt))

\* C14 as stated: for a tool-invocation event of a known tool only the
\* primary text field is scanned (Write: content; Edit: new_string;
\* MultiEdit: the new_string of each edit joined by newline; Bash: command;
\* Task: prompt): the run blocks exactly when a pattern matches in it, and a
\* secret in any other field produces no finding.
C14_PrimaryFieldOnly ==
  (ProcessedEvent /\ guardian = "ready" /\ KnownToolEvent(Parse(input))) =>
    ScannedExactly(PrimaryText(Parse(input)))

\* C14 as amended: the scanned text is the primary field, or its alternate
\* when the primary holds no text (Write: file_content; Edit and each edit of
\* a MultiEdit: new_content), '' when neither does; a MultiEdit without a
\* list of edits has its whole serialized tool_input scanned.  The run
\* blocks exactly when a pattern matches in that text, so a secret in a
\* field that is not selected produces no finding.
C14_SelectedField ==
  (ProcessedEvent /\ KnownToolEvent(Parse(input))) =>
    /\ Scanned => lastContent = Str(SelectedText(Parse(input)))
    /\ exitCode \in {ExitAllow, ExitBlock} => Scanned
    /\ guardian = "ready" => ScannedExactly(SelectedText(Parse(input)))

\* an Edit whose old_string holds a secret and whose new_string does not was
\* scanned and allowed
C14_Witness ==
  /\ ProcessedEvent
  /\ KnownToolEvent(Parse(input))
  /\ Scanned
  /\ SelectedText(Parse(input)) # <<>>
  /\ SomePatternMatches(thisPatterns,
                        FieldText(Get(Get(Parse(input), K_tool_input), K_old_string)))
  /\ lastResults.secrets_found = <<>>
  /\ exitCode = ExitAllow

\* C15: for a tool-invocation event whose tool name is none of Write, Edit,
\* MultiEdit, Bash, Task the scan is handed the entire serialized tool_input,
\* and the run blocks exactly when a pattern matches anywhere in it; no such
\* event is allowed unscanned.
C15_UnknownToolWhole ==
  (ProcessedEvent /\ IsToolEvent(Parse(input))
     /\ Get(Parse(input), K_tool_name) \notin KnownTools) =>
    LET serialized == Stringify(Get(Parse(input), K_tool_input), 0, 0) IN
    /\ Scanned => lastContent = Str(serialized)
    /\ exitCode \in {ExitAllow, ExitBlock} => Scanned
    /\ guardian = "ready" => ScannedExactly(serialized)

\* a Read event whose file_path holds a secret was blocked
C15_Witness ==
  /\ ProcessedEvent
  /\ Get(Parse(input), K_tool_name) = Str(S_Read)
  /\ SomePatternMatches(thisPatterns,
                        FieldText(Get(Get(Parse(input), K_tool_input), K_file_path)))
  /\ lastContent = Str(Stringify(Get(Parse(input), K_tool_input), 0, 0))
  /\ lastResults.blocked
  /\ exitCode = ExitBlock

\* a messages event whose messages are objects with a text or a list of
\* segment objects as content
ConversationEvent(data) ==
  /\ IsMessagesEvent(data)
  /\ \A i \in 1..Len(Get(data, K_messages).items) :
       LET m == Get(data, K_messages).items[i] IN
       /\ m.t = "object"
       /\ \/ TextOrAbsent(Get(m, K_content))
          \/ /\ IsArray(Get(m, K_content))
             /\ \A j \in 1..Len(Get(m, K_content).items) :
                  /\ Get(m, K_content).items[j].t = "object"
                  /\ TextOrAbsent(Get(Get(m, K_content).items[j], K_text))

\* the text of one message: its string content, or the texts of its
\* segments line by line
TextOfMessage(m) ==
  IF IsArray(Get(m, K_content))
  THEN Join([j \in 1..Len(Get(m, K_content).items) |->
               FieldText(Get(Get(m, K_content).items[j], K_text))], <<"\n">>)
  ELSE FieldText(Get(m, K_content))

\* the messages of the event with the given role
MessagesOfRole(data, role) ==
  SelectSeq(Get(data, K_messages).items, LAMBDA m : Get(m, K_role) = Str(role))

\* the texts of the assistant's messages, line by line
AssistantText(data) ==
  Join([i \in 1..Len(MessagesOfRole(data, S_assistant)) |->
          TextOfMessage(MessagesOfRole(data, S_assistant)[i])], <<"\n">>)

\* C16: for an event carrying a messages array the scanned text is built
\* solely from the messages whose role is 'assistant' (string content as it
\* is, array content as the text of each segment); the run blocks exactly
\* when a pattern matches in that text, so a secret that appears only in a
\* message of another role produces neither a finding nor a block.
C16_AssistantOnly ==
  (ProcessedEvent /\ ConversationEvent(Parse(input))) =>
    /\ Scanned => lastContent = Str(AssistantText(Parse(input)))
    /\ exitCode \in {ExitAllow, ExitBlock} => Scanned
    /\ guardian = "ready" => ScannedExactly(AssistantText(Parse(input)))

\* a conversation whose user message holds a secret and whose assistant
\* message does not was scanned and allowed
C16_Witness ==
  /\ ProcessedEvent
  /\ ConversationEvent(Parse(input))
  /\ Scanned
  /\ AssistantText(Parse(input)) # <<>>
  /\ \E i \in 1..Len(MessagesOfRole(Parse(input), S_user)) :
       SomePatternMatches(thisPatterns,
                          TextOfMessage(MessagesOfRole(Parse(input), S_user)[i]))
  /\ lastResults.secrets_found = <<>>
  /\ exitCode = ExitAllow

MatchedTexts(registry, text) ==
  Flatten([i \in 1..Len(registry) |->
    Flatten([j \in 1..Len(registry[i].patterns) |->
      LET matches == MatchAll(text, registry[i].patterns[j]) IN
      [m \in 1..Len(matches) |-> matches[m].str]])])

\* C18: in every finding the preview is the first 50 characters of the
\* matched text, followed by the marker '...' if and only if the matched
\* text is longer than 50 characters; a match of 50 characters or fewer is
\* reported verbatim.
C18_PreviewTruncation ==
  Scanned =>
    LET found == lastResults.secrets_found
        texts == MatchedTexts(thisPatterns, ContentStr(lastContent))
    IN
    /\ Len(found) = Len(texts)
    /\ \A k \in 1..Len(found) :
         IF Len(texts[k]) > 50
         THEN found[k].match = SubSeq(texts[k], 1, 50) \o <<".", ".", ".">>
         ELSE found[k].match = texts[k]

\* C19: for every finding, line is 1 plus the number of newline characters
\* of the scanned text strictly before the match's start offset, so line is
\* at least 1 and position at least 0.
C19_LineNumber ==
  Scanned =>
    LET found == lastResults.secrets_found
        text  == ContentStr(lastContent)
    IN  \A k \in 1..Len(found) :
          /\ found[k].position >= 0
          /\ found[k].position <= Len(text)
          /\ found[k].line >= 1
          /\ found[k].line =
               1 + Cardinality({i \in 1..found[k].position : text[i] = "\n"})

\* findings on the first and on the third line of a text, and one that
\* starts right after a line break
C19_Witness ==
  /\ Scanned
  /\ \E k, l \in 1..Len(lastResults.secrets_found) :
       /\ lastResults.secrets_found[k].line = 1
       /\ lastResults.secrets_found[l].line = 3
       /\ lastResults.secrets_found[l].position > 0
       /\ ContentStr(lastContent)[lastResults.secrets_found[l].position] = "\n"

\* the detail lines of a diagnostic that lists every finding of a result
\* with its category, its preview and its line, in the order of the findings
ListedFindings(result) ==
  [i \in 1..Len(result.secrets_found) |->
     [ type  |-> result.secrets_found[i].type,
       match |-> result.secrets_found[i].match,
       line  |-> result.secrets_found[i].line ]]

\* C20: diagnostics follow the decision.  When the hook has exited on a
\* scan whose result is blocked, the error stream holds exactly one
\* diagnostic, which lists every finding (category, preview, line) in the
\* order of the findings together with the fixed recommendations, and the
\* exit is not the allow exit; when it has exited on a scan without
\* findings, the exit is the allow exit and the error stream is empty.
C20_DiagnosticsFollowDecision ==
  (pc = "exited" /\ via = "end" /\ Scanned) =>
    IF lastResults.blocked
    THEN /\ exitCode \notin {NoExit, ExitAllow}
         /\ Len(stderr) = 1
         /\ stderr[1].details = ListedFindings(lastResults)
         /\ stderr[1].recommendations = Recommendations
    ELSE /\ lastResults.secrets_found = <<>>
         /\ exitCode = ExitAllow
         /\ stderr = <<>>

\* C21: the hook's own timeout is strictly shorter than every timeout under
\* which an installer that ran successfully has registered the guardian
\* hook, and the host never has to kill a hook it launched: the hook's own
\* timer ends the run first.
C21_HookTimeoutBeforeHost ==
  /\ (host.script # "none" /\ host.exitCode = 0) =>
       \A t \in GuardianTimeouts(settingsFile) : TimeoutMs < t * 1000
  /\ via # "host"

\* C22: the compiled registry is read-only after load.  Whatever scans a
\* constructed guardian has run, this.patterns equals what compilePatterns
\* produced from the configuration at construction: the same categories in
\* the same order, each with the same compiled patterns.
C22_RegistryReadOnly ==
  guardian = "ready" => thisPatterns = CompilePatterns(Get(agentConfig, K_patterns))

\* a guardian with two categories that has scanned two different contents,
\* the latest with findings
C22_Witness ==
  /\ guardian = "ready"
  /\ Len(thisPatterns) = 2
  /\ \A i \in 1..2 : thisPatterns[i].patterns # <<>>
  /\ first.between
  /\ lastResults.blocked

\* a parsed event that no earlier branch takes and that carries a truthy
\* notification_type
IsNotification(data) ==
  /\ ~ GetThrows(data)
  /\ IsUnrecognized(data)
  /\ Truthy(Get(data, K_notification_type))

\* C23: notification pass-through.  When the hook has processed an event
\* that is not a tool, messages or non-empty-prompt event and carries a
\* truthy notification_type, nothing was scanned, whatever else the event
\* contains, the run was not blocked, and the hook, its guardian
\* constructed, exited 0 without writing a diagnostic.
C23_NotificationPassThrough ==
  (ProcessedEvent /\ IsNotification(Parse(input))) =>
    /\ ~ Scanned
    /\ lastContent = Undefined
    /\ exitCode # ExitBlock
    /\ guardian = "ready" => (exitCode = ExitAllow /\ stderr = <<>>)

\* a notification that holds a secret in another field went through a hook
\* whose registry matches that secret
C23_Witness ==
  /\ ProcessedEvent
  /\ IsNotification(Parse(input))
  /\ guardian = "ready"
  /\ SomePatternMatches(thisPatterns, Get(Parse(input), K_content).s)
  /\ exitCode = ExitAllow

\* the 'end' handler has ended the run
EndedByEnd == pc = "exited" /\ via = "end"

\* the text of the empty object
EmptyObjectText == <<"{", "}">>

\* C24 as stated: when stdin ends on empty or whitespace-only input the hook
\* exits 0 with no guardian constructed, nothing scanned and nothing
\* written; when it ends on '{}' the hook, its guardian constructed, scans
\* and exits 0.
C24_EmptyInputAllows ==
  /\ (EndedByEnd /\ Trim(input) = <<>>) =>
       /\ exitCode = ExitAllow
       /\ stderr = <<>>
       /\ guardian = "none"
       /\ ~ Scanned
  /\ (EndedByEnd /\ Trim(input) = EmptyObjectText /\ guardian = "ready") =>
       /\ Scanned
       /\ exitCode = ExitAllow

\* C24 as amended: when stdin ends on empty or whitespace-only input the
\* hook exits 0 with no guardian constructed, nothing scanned and nothing
\* written; when it ends on '{}' the run is never allowed or blocked without
\* a scan, and the hook, its guardian constructed, scans the text {} of the
\* event as an unknown shape, allows when no pattern of the registry matches
\* in it and blocks when one does, as a pattern that matches the empty
\* string does.
C24_EmptyInput ==
  /\ (EndedByEnd /\ Trim(input) = <<>>) =>
       /\ exitCode = ExitAllow
       /\ stderr = <<>>
       /\ guardian = "none"
       /\ ~ Scanned
  /\ (EndedByEnd /\ Trim(input) = EmptyObjectText) =>
       /\ exitCode \in {ExitAllow, ExitBlock} => Scanned
       /\ guardian = "ready" => ScannedExactly(EmptyObjectText)

\* stdin ended on input that holds white space only
C24_Witness ==
  /\ EndedByEnd
  /\ input # <<>>
  /\ Trim(input) = <<>>
  /\ exitCode = ExitAllow

\* the tools with one primary text field
SingleFieldTools == { Str(S_Write), Str(S_Edit), Str(S_Bash), Str(S_Task) }

\* a tool-invocation event of such a tool whose fields hold text or nothing
SingleFieldEvent(data) ==
  KnownToolEvent(data) /\ Get(data, K_tool_name) \in SingleFieldTools

\* the text of the fallback field of the tool, '' when it has none
FallbackText(data) ==
  LET tool == Get(data, K_tool_name)
      ti   == Get(data, K_tool_input)
  IN  CASE tool = Str(S_Write) -> FieldText(Get(ti, K_file_content))
        [] tool = Str(S_Edit)  -> FieldText(Get(ti, K_new_content))
        [] OTHER               -> <<>>

\* C25 as stated: for a Write, Edit, Bash or Task event whose primary text
\* field is absent, null or '', the fallback field (file_content,
\* new_content) is the only other field consulted; when that holds no text
\* either the scanned text is '' and the hook exits 0; when the primary
\* field holds text, that text is scanned and the fallback is not consulted.
C25_MissingPrimaryAllows ==
  (ProcessedEvent /\ guardian = "ready" /\ SingleFieldEvent(Parse(input))) =>
    LET data == Parse(input) IN
    /\ (PrimaryText(data) = <<>> /\ FallbackText(data) = <<>>) =>
         (Scanned /\ lastContent = Str(<<>>) /\ exitCode = ExitAllow)
    /\ (PrimaryText(data) = <<>> /\ FallbackText(data) # <<>>) =>
         ScannedExactly(FallbackText(data))
    /\ PrimaryText(data) # <<>> => ScannedExactly(PrimaryText(data))

\* C25 as amended: for a Write, Edit, Bash or Task event no run is allowed
\* or blocked without a scan and, the guardian constructed: when the primary
\* text field is absent, null or '', the fallback field (file_content,
\* new_content) is the only other field consulted; when that holds no text
\* either the scanned text is '' and the hook exits 0 unless a pattern of
\* the registry matches the empty string, in which case it blocks; when the
\* primary field holds text, that text is scanned and the fallback is not
\* consulted.
C25_MissingPrimary ==
  (ProcessedEvent /\ SingleFieldEvent(Parse(input))) =>
    LET data == Parse(input) IN
    /\ exitCode \in {ExitAllow, ExitBlock} => Scanned
    /\ guardian = "ready" =>
         /\ PrimaryText(data) = <<>> => ScannedExactly(FallbackText(data))
         /\ PrimaryText(data) # <<>> => ScannedExactly(PrimaryText(data))

\* a Write whose content is '' and whose file_path holds a secret the
\* registry matches was scanned as '' and allowed
C25_Witness ==
  /\ ProcessedEvent /\ guardian = "ready" /\ SingleFieldEvent(Parse(input))
  /\ PrimaryText(Parse(input)) = <<>> /\ FallbackText(Parse(input)) = <<>>
  /\ SomePatternMatches(thisPatterns, Stringify(Get(Parse(input), K_tool_input), 0, 0))
  /\ lastContent = Str(<<>>)
  /\ exitCode = ExitAllow

\* a MultiEdit event whose tool_input is an object
MultiEditEvent(data) ==
  /\ IsToolEvent(data)
  /\ Get(data, K_tool_name) = Str(S_MultiEdit)
  /\ Get(data, K_tool_input).t = "object"

\* tool_input.edits of the event
EditsOf(data) == Get(Get(data, K_tool_input), K_edits)

\* every edit is an object whose fields hold text or nothing
UsableEdits(edits) ==
  /\ IsArray(edits)
  /\ \A i \in 1..Len(edits.items) :
       /\ edits.items[i].t = "object"
       /\ \A j \in 1..Len(edits.items[i].items) : TextOrAbsent(edits.items[i].items[j].v)

\* the new_string (else new_content, else '') of each edit, joined by newline
EditsText(edits) ==
  Join([i \in 1..Len(edits.items) |->
          FirstText(Get(edits.items[i], K_new_string),
                    Get(edits.items[i], K_new_content))], <<"\n">>)

\* C26: a MultiEdit event is never allowed or blocked without a scan unless
\* edits is an array; the guardian constructed, an event whose
\* tool_input.edits is missing or not an array has its entire serialized
\* tool_input scanned, and one whose edits is an array of edit objects has
\* exactly the new_string (else new_content) of each edit scanned, a missing
\* value contributing the empty string.
C26_MultiEditFallback ==
  (ProcessedEvent /\ MultiEditEvent(Parse(input))) =>
    LET data == Parse(input) IN
    /\ (exitCode \in {ExitAllow, ExitBlock} /\ ~ Scanned) => IsArray(EditsOf(data))
    /\ guardian = "ready" =>
         /\ ~ IsArray(EditsOf(data)) =>
              ScannedExactly(Stringify(Get(data, K_tool_input), 0, 0))
         /\ UsableEdits(EditsOf(data)) => ScannedExactly(EditsText(EditsOf(data)))

\* a MultiEdit whose edits is no array and whose tool_input holds a secret
\* was blocked
C26_Witness ==
  /\ ProcessedEvent /\ guardian = "ready" /\ MultiEditEvent(Parse(input))
  /\ ~ IsArray(EditsOf(Parse(input)))
  /\ lastContent = Str(Stringify(Get(Parse(input), K_tool_input), 0, 0))
  /\ exitCode = ExitBlock

\* the tool name and the tool input of an event, under the keys of the
\* format the processing function reads
ToolNameOf(data) == Get(data, IF variant = "v1" THEN K_toolName ELSE K_tool_name)
ToolInputOf(data) == Get(data, IF variant = "v1" THEN K_toolInput ELSE K_tool_input)

\* the shape tests of the claim
HasToolShape(data) == Truthy(ToolNameOf(data)) /\ ToolInputOf(data) # Undefined
HasMessagesShape(data) == IsArray(Get(data, K_messages))

\* an event object whose tool, if it has the tool shape, is a Write with a
\* text as content, whose messages, if any, are objects with a text as
\* content, and whose prompt, if any, is a text
PlainEvent(data) ==
  /\ data.t = "object"
  /\ HasToolShape(data) =>
       /\ ToolNameOf(data) = Str(S_Write)
       /\ ToolInputOf(data).t = "object"
       /\ Get(ToolInputOf(data), K_content).t = "string"
       /\ Get(ToolInputOf(data), K_content).s # <<>>
  /\ Get(data, K_messages).t \in {"undefined", "array"}
  /\ \A i \in 1..Len(Get(data, K_messages).items) :
       /\ Get(data, K_messages).items[i].t = "object"
       /\ TextOrAbsent(Get(Get(data, K_messages).items[i], K_content))
  /\ TextOrAbsent(Get(data, K_prompt))

\* the scan was handed exactly text and found something exactly when a
\* pattern of the registry matches in it
ScannedText(text) ==
  /\ Scanned
  /\ lastContent = Str(text)
  /\ lastResults.blocked <=> SomePatternMatches(thisPatterns, text)

\* C27: exactly one branch selects the text to scan, the first in the order
\* tool invocation, messages array, prompt, notification, unknown: of an
\* event that satisfies several shape tests only the text of the earliest
\* branch is scanned, and a secret reachable only through a later branch
\* produces no finding.
C27_FirstMatchOrder ==
  (pc = "exited" /\ guardian = "ready" /\ ParseOk(input) /\ PlainEvent(Parse(input))) =>
    LET data == Parse(input) IN
    IF HasToolShape(data)
    THEN ScannedText(Get(ToolInputOf(data), K_content).s)
    ELSE IF HasMessagesShape(data)
    THEN ScannedText(AssistantText(data))
    ELSE IF Truthy(Get(data, K_prompt))
    THEN ScannedText(Get(data, K_prompt).s)
    ELSE IF Truthy(Get(data, K_notification_type))
    THEN ~ Scanned
    ELSE ScannedText(Stringify(data, 0, 0))

\* the number of compiled patterns of the registry
PatternCount(registry) ==
  SumSeq([i \in 1..Len(registry) |-> Len(registry[i].patterns)])

\* the findings of the last scan filed under category i of the registry
FindingsOfCategory(i) ==
  SelectSeq(lastResults.secrets_found, LAMBDA f : f.type = thisPatterns[i].category)

\* C28: every scan of a constructed guardian ends with a result; each
\* pattern, one that matches the empty string included, matches at most
\* length(text)+1 times in the scanned text, each category contributes at
\* most (length(text)+1) findings per pattern, and the findings list holds
\* at most (length(text)+1) times the number of compiled patterns.
C28_ScanBounded ==
  (guardian = "ready" /\ Scanned) =>
    LET text == ContentStr(lastContent) IN
    /\ \A i \in 1..Len(thisPatterns) :
         /\ \A j \in 1..Len(thisPatterns[i].patterns) :
              Len(MatchAll(text, thisPatterns[i].patterns[j])) <= Len(text) + 1
         /\ Len(FindingsOfCategory(i)) <= (Len(text) + 1) * Len(thisPatterns[i].patterns)
    /\ Len(lastResults.secrets_found) <= (Len(text) + 1) * PatternCount(thisPatterns)

\* a text that is not empty was scanned by a registry one of whose patterns
\* matches the empty string: that pattern alone gave length(text)+1 findings
C28_Witness ==
  /\ guardian = "ready" /\ Scanned
  /\ Len(ContentStr(lastContent)) > 0
  /\ \E i \in 1..Len(thisPatterns) :
       /\ Len(thisPatterns[i].patterns) = 1
       /\ Len(FindingsOfCategory(i)) = Len(ContentStr(lastContent)) + 1

\* C29: the session-start hook exits on every path, with code 0 whether or
\* not it found secrets in the environment or the working directory, on an
\* unparsable payload, on empty stdin, on a stdin error and on its 3-second
\* timeout; once it has exited nothing more happens: it exits exactly once.
C29_SessionStartNeverBlocks ==
  /\ [](pc = "exited" <=> exitCode # NoExit)
  /\ [](exitCode \in {NoExit, ExitAllow})
  /\ [](stderr = <<>>)
  /\ [][exitCode # NoExit =>
          (exitCode' = exitCode /\ via' = via /\ stdout' = stdout /\ pc' = pc)]_vars
  /\ <>(pc = "exited")

\* the hook reported secrets of the environment and of a file and exited 0
C29_Witness ==
  /\ pc = "exited" /\ via = "end"
  /\ ScanEnvironment(world.env) # <<>>
  /\ SessionScanContent(LoadPatterns(configFile), world.file.text) # <<>>
  /\ Len(stdout) = 1
  /\ stdout[1].kind = "warning" /\ stdout[1].total > 1
  /\ exitCode = ExitAllow

\* the entries settings.json lists for an event
EntriesOf(settings, event) ==
  LET list == Get(Get(settings, K_hooks), event) IN
  IF IsArray(list) THEN list.items ELSE <<>>

\* the command of one of the hooks of the entry names the script
ReferencesScript(entry, name) ==
  LET hs == Get(entry, K_hooks) IN
  IsArray(hs) /\ \E i \in 1..Len(hs.items) : HookMatches(hs.items[i], name)

\* the entries for the event that reference the script, in order
EntriesFor(settings, event, name) ==
  SelectSeq(EntriesOf(settings, event), LAMBDA e : ReferencesScript(e, name))

\* the entries for the event that reference no guardian script, in order
ForeignEntries(settings, event) ==
  SelectSeq(EntriesOf(settings, event),
            LAMBDA e : ~ ReferencesScript(e, GuardianHookJs)
                       /\ ~ ReferencesScript(e, SessionStartHookJs))

\* the events the installers and the settings of the model know
SettingsEvents == {E_PreToolUse, E_UserPromptSubmit, E_Stop, E_SubagentStop, E_SessionStart}

\* update-settings.js ran last and wrote settings.json
UpdateSettingsSucceeded == host.script = "update-settings" /\ host.exitCode = 0

\* PreToolUse and Stop hold one guardian-hook.js entry each, SessionStart
\* the three session-start-hook.js entries startup, resume, clear
RegisteredOnce(settings) ==
  /\ Len(EntriesFor(settings, E_PreToolUse, GuardianHookJs)) = 1
  /\ Len(EntriesFor(settings, E_Stop, GuardianHookJs)) = 1
  /\ [i \in 1..Len(EntriesFor(settings, E_SessionStart, SessionStartHookJs)) |->
        Get(EntriesFor(settings, E_SessionStart, SessionStartHookJs)[i], K_matcher)]
       = [i \in 1..Len(SessionMatchers) |-> Str(SessionMatchers[i])]

\* C30: whenever update-settings.js has run and written settings.json, the
\* PreToolUse and Stop lists each hold exactly one guardian-hook.js entry
\* and SessionStart exactly the three session-start-hook.js entries; a run
\* of update-settings.js keeps every entry that references no guardian
\* script, unchanged and in order; and a run that follows a run of
\* update-settings.js leaves settings.json as it was.
C30_RegistrationIdempotent ==
  /\ [](UpdateSettingsSucceeded => RegisteredOnce(Parse(settingsFile.text)))
  /\ [][(pc = "install" /\ pc' = "install"
           /\ host'.script = "update-settings" /\ host'.exitCode = 0) =>
          /\ (settingsFile.exists /\ ParseOk(settingsFile.text)) =>
               \A e \in SettingsEvents :
                 ForeignEntries(Parse(settingsFile'.text), e)
                   = ForeignEntries(Parse(settingsFile.text), e)
          /\ UpdateSettingsSucceeded => settingsFile' = settingsFile]_vars

====
